---- MODULE Spec2Model ----
(***************************************************************************)
(* ARFlow: the FFmpeg video compressor (python/arflow/_compression.py) and *)
(* the session stream that multiplexes frames to the recording sink        *)
(* (python/arflow/_session_stream.py).                                     *)
(*                                                                         *)
(* Spec     host threads calling one FFmpegVideoCompressor concurrently:   *)
(*          compress_frame_sequence, cleanup_session, cleanup_all_sessions *)
(* SpecMux  one SessionStream processing batches one after another         *)
(* SpecFrames   save_color_frames on frames that are well formed or not     *)
(* SpecEntry    every save_* entry point, with no frame or a few           *)
(* SpecDetect   the plane, point cloud and mesh detection entry points     *)
(* SpecGrouper  the groupers of python/arflow/_utils.py                    *)
(* SpecBoundary _convert_2d_to_3d_boundary_points                          *)
(* SpecFresh    the first detection batch of a stream                      *)
(* SpecPixels   _bgra_to_rgba and _argb_to_rgba                            *)
(* SpecI420     _to_i420_format                                            *)
(***************************************************************************)
EXTENDS Integers, Sequences, FiniteSets, TLC

VARIABLES
    compressors,      \* SessionStream._compressors: the resolutions that have a compressor
    active_sessions,  \* FFmpegVideoCompressor._active_sessions, per compressor, in insertion order
    session_lock,     \* FFmpegVideoCompressor._session_lock, per compressor: its holder
    objects,          \* the VideoSession objects on the heap
    cleaned,          \* the VideoSession objects whose cleanup() has run
    dirs,             \* the scratch directories that exist
    files,            \* the files in each scratch directory
    pc,               \* each thread's position
    call,             \* each thread's arguments of the call in progress
    sess,             \* each thread's local `session`
    stamp,            \* each thread's local `timestamp`
    saved,            \* each thread's local `saved_files`: frames 1..saved
    outcome,          \* how the encoder run of each thread's last call ended
    result,           \* what each thread's last compress_frame_sequence returned
    ffmpeg_available, \* the host has an ffmpeg binary
    compression_available, \* COMPRESSION_AVAILABLE: arflow._compression was imported
    enable_compression,    \* SessionStream.enable_compression
    mux,              \* the save_* call of the session stream in progress, or the last one
    raised,           \* the last save_* call ended in an exception
    sink,             \* the writes that call has sent to the recording, in order
    declared,         \* the entity paths that had a static declaration before that call
    trackables        \* the detections (kind, trackable) the recording shows as present

cvars == <<compressors, active_sessions, session_lock, objects, cleaned, dirs, files,
           pc, call, sess, stamp, saved, outcome, result>>

mvars == <<ffmpeg_available, compression_available, enable_compression, mux, raised,
           sink, declared, trackables>>

vars == <<cvars, mvars>>

----------------------------------------------------------------------------
(* Bounds and value sets *)

\* the longest frame list a caller submits
MaxFrames == 2

\* the values int(time.time() * 1000) takes
Stamps == {1000, 1001}

Threads == {"t1", "t2"}

\* identifiers are strings, written as tuples of characters
SessionId == <<"s">>
DeviceIds == {<<"d">>, <<"e">>}

\* the (session id, device id) pairs that callers use: two devices of one session
Pairs == {<<SessionId, d>> : d \in DeviceIds}

Resolutions == {<<640, 480>>, <<1280, 720>>}

None == "None"
Bytes == "bytes"

\* heap addresses; an address is reused once nothing refers to the object
ObjIds == 1 .. (Cardinality(Resolutions) * Cardinality(Pairs) + Cardinality(Threads))
NoObj == 0
NoStamp == 0

----------------------------------------------------------------------------
(* Names: session keys, scratch directories, scratch files *)

Underscore == <<"_">>

\* session_key = f"{session_id}_{device_id}"
SessionKey(session_id, device_id) == session_id \o Underscore \o device_id

\* session_dir = output_dir / f"arflow_compression_{session_id}_{device_id}";
\* every compressor of a process has the same output_dir (the system temp directory)
SessionDir(session_id, device_id) ==
    <<"arflow_compression">> \o Underscore \o session_id \o Underscore \o device_id

DirNames == {SessionDir(p[1], p[2]) : p \in Pairs}

\* f"frame_%06d_{timestamp}.png" % (i + 1)
FrameFile(i, timestamp) == [kind |-> "frame", index |-> i, ts |-> timestamp]

\* f"compressed_{timestamp}.mp4"
OutputFile(timestamp) == [kind |-> "compressed", index |-> 0, ts |-> timestamp]

SavedFiles(n, timestamp) == {FrameFile(i, timestamp) : i \in 1 .. n}

----------------------------------------------------------------------------
(* The heap of VideoSession objects and the session table *)

NoObject ==
    [live |-> FALSE, session_id |-> <<>>, device_id |-> <<>>, session_dir |-> <<>>,
     frame_count |-> 0]

\* VideoSession.__init__. The list temp_files is not kept: each of its paths is a
\* file of session_dir, and the only reader, cleanup(), unlinks every file of
\* session_dir in the same step (CleanupUnlink)
NewVideoSession(session_id, device_id) ==
    [live |-> TRUE, session_id |-> session_id, device_id |-> device_id,
     session_dir |-> SessionDir(session_id, device_id),
     frame_count |-> 0]

HasKey(table, key) == \E i \in DOMAIN table : table[i].key = key

Lookup(table, key) == table[CHOOSE i \in DOMAIN table : table[i].key = key].session

DelKey(table, key) == SelectSeq(table, LAMBDA e : e.key # key)

TableObjects(table) == {table[i].session : i \in DOMAIN table}

\* the objects something still refers to: a session table or a thread's local
Referenced(tables, locals) ==
    (UNION {TableObjects(tables[c]) : c \in Resolutions}
        \cup {locals[t] : t \in Threads}) \ {NoObj}

FreshObj == CHOOSE o \in ObjIds :
    /\ o \notin Referenced(active_sessions, sess)
    /\ \A q \in ObjIds : q \notin Referenced(active_sessions, sess) => o <= q

\* objects nothing refers to are freed
Collect(heap, tables, locals) ==
    [o \in ObjIds |-> IF o \in Referenced(tables, locals) THEN heap[o] ELSE NoObject]

NoCall == [op |-> None, c |-> <<0, 0>>, session_id |-> <<>>, device_id |-> <<>>,
           n |-> 0, idx |-> 0, caller |-> None]

CallKey(t) == SessionKey(call[t].session_id, call[t].device_id)

----------------------------------------------------------------------------
(* FFmpegVideoCompressor.compress_frame_sequence and VideoSession.compress_frames *)

\* the ways subprocess.run ends: the encoder exited 0, subprocess.TimeoutExpired,
\* subprocess.CalledProcessError, any other exception
Outcomes == {"exit0", "timeout", "nonzero", "exception"}

\* a lookup without the `if session_key not in self._active_sessions`: every
\* submit makes a new session for its key
GetOrCreateAlwaysNew(t, c, session_id, device_id) ==
    LET key == SessionKey(session_id, device_id)
        table == active_sessions[c]
    IN  /\ session_lock[c] = None
        /\ sess' = [sess EXCEPT ![t] = FreshObj]
        /\ active_sessions' = [active_sessions EXCEPT
               ![c] = Append(DelKey(table, key), [key |-> key, session |-> FreshObj])]
        /\ objects' = [objects EXCEPT ![FreshObj] = NewVideoSession(session_id, device_id)]
        /\ dirs' = dirs \cup {SessionDir(session_id, device_id)}
        /\ UNCHANGED <<session_lock, cleaned, files>>

\* `with self._session_lock:` get or create the session of the key; the lock is
\* taken and released within the step
GetOrCreate(t, c, session_id, device_id) ==
    LET key == SessionKey(session_id, device_id)
        table == active_sessions[c]
    IN  /\ session_lock[c] = None
        /\ IF HasKey(table, key)
             THEN /\ sess' = [sess EXCEPT ![t] = Lookup(table, key)]
                  /\ UNCHANGED <<active_sessions, objects, dirs>>
             ELSE /\ sess' = [sess EXCEPT ![t] = FreshObj]
                  /\ active_sessions' = [active_sessions EXCEPT
                         ![c] = Append(table, [key |-> key, session |-> FreshObj])]
                  /\ objects' = [objects EXCEPT
                         ![FreshObj] = NewVideoSession(session_id, device_id)]
                  \* self.session_dir.mkdir(parents=True, exist_ok=True)
                  /\ dirs' = dirs \cup {SessionDir(session_id, device_id)}
        /\ UNCHANGED <<session_lock, cleaned, files>>

\* where a thread goes when compress_frame_sequence returns to its caller
AfterReturn(t) == IF call[t].caller = "mux" THEN "color_compressed" ELSE "idle"

\* compress_frame_sequence returns `data`: the thread's locals die with the frame
Return(t, data) ==
    /\ pc' = [pc EXCEPT ![t] = AfterReturn(t)]
    /\ result' = [result EXCEPT ![t] = data]
    /\ call' = [call EXCEPT ![t] = NoCall]
    /\ sess' = [sess EXCEPT ![t] = NoObj]
    /\ stamp' = [stamp EXCEPT ![t] = NoStamp]
    /\ saved' = [saved EXCEPT ![t] = 0]

\* a host thread calls compress_frame_sequence(frames, session_id, device_id)
\* with n = len(frames)
CompressFrameSequence(t, c, session_id, device_id, n) ==
    /\ pc[t] = "idle"
    /\ c \in compressors
    /\ IF n = 0
         THEN \* "No frames provided for compression"
              /\ result' = [result EXCEPT ![t] = None]
              /\ outcome' = [outcome EXCEPT ![t] = None]
              /\ UNCHANGED <<compressors, active_sessions, session_lock, objects, cleaned,
                             dirs, files, pc, call, sess, stamp, saved>>
         ELSE /\ GetOrCreate(t, c, session_id, device_id)
              /\ pc' = [pc EXCEPT ![t] = "compress_frames"]
              /\ call' = [call EXCEPT ![t] =
                     [op |-> "submit", c |-> c, session_id |-> session_id,
                      device_id |-> device_id, n |-> n, idx |-> 0, caller |-> "host"]]
              /\ result' = [result EXCEPT ![t] = None]
              /\ outcome' = [outcome EXCEPT ![t] = None]
              /\ UNCHANGED <<compressors, stamp, saved>>
    /\ UNCHANGED mvars

\* compress_frames: timestamp = int(time.time() * 1000); the wall clock is any value
Timestamp(t) ==
    /\ pc[t] = "compress_frames"
    /\ \E ts \in Stamps : stamp' = [stamp EXCEPT ![t] = ts]
    /\ saved' = [saved EXCEPT ![t] = 0]
    /\ pc' = [pc EXCEPT ![t] = "save"]
    /\ UNCHANGED <<compressors, active_sessions, session_lock, objects, cleaned, dirs,
                   files, call, sess, outcome, result>>
    /\ UNCHANGED mvars

MyDir(t) == objects[sess[t]].session_dir

\* _cleanup_temp_files: unlink every listed file that exists
CleanupTempFiles(fs, dir, names) == [fs EXCEPT ![dir] = @ \ names]

\* a `finally:` that forgets the output file
FinallySavedOnly(fs, dir, saved_frames, timestamp) ==
    CleanupTempFiles(fs, dir, saved_frames)

\* the `finally:` of compress_frames: _cleanup_temp_files([*saved_frames, output_file])
Finally(fs, dir, saved_frames, timestamp) ==
    CleanupTempFiles(fs, dir, saved_frames \cup {OutputFile(timestamp)})

\* _save_frames_as_images, one iteration that writes its image; cv2.imwrite needs the
\* directory; after the last frame the encoder process is started
SaveFrame(t) ==
    /\ pc[t] = "save"
    /\ MyDir(t) \in dirs
    /\ files' = [files EXCEPT ![MyDir(t)] = @ \cup {FrameFile(saved[t] + 1, stamp[t])}]
    /\ saved' = [saved EXCEPT ![t] = @ + 1]
    /\ pc' = [pc EXCEPT ![t] = IF saved[t] + 1 = call[t].n THEN "ffmpeg" ELSE "save"]
    /\ UNCHANGED <<compressors, active_sessions, session_lock, objects, cleaned, dirs,
                   call, sess, stamp, outcome, result>>
    /\ UNCHANGED mvars

\* _save_frames_as_images, an iteration that fails (OpenCV missing, not an array,
\* imwrite returned False, an exception): the images saved so far are removed and
\* [] is returned; compress_frames returns None through its `finally:`
SaveFrameFails(t) ==
    /\ pc[t] = "save"
    /\ files' = Finally(CleanupTempFiles(files, MyDir(t), SavedFiles(saved[t], stamp[t])),
                        MyDir(t), {}, stamp[t])
    /\ Return(t, None)
    /\ outcome' = [outcome EXCEPT ![t] = "save_failed"]
    /\ objects' = Collect(objects, active_sessions, sess')
    /\ cleaned' = cleaned \cap Referenced(active_sessions, sess')
    /\ UNCHANGED <<compressors, active_sessions, session_lock, dirs>>
    /\ UNCHANGED mvars

\* what happened to the encoder run, as the external-encoder contract names it:
\* success, output file absent, timeout exceeded, non-zero exit code (and an
\* unexpected exception)
EncoderRun(o, output_exists) ==
    IF o = "exit0" THEN (IF output_exists THEN "ok" ELSE "no_output") ELSE o

\* a reader that returns whatever output file is there, however the encoder ended
RunFfmpegResultAnyExit(o, fs, dir, timestamp) ==
    IF OutputFile(timestamp) \in fs[dir] THEN Bytes ELSE None

\* _run_ffmpeg_compression after subprocess.run: the bytes of the output file when
\* the encoder exited 0 in time and the file exists, None otherwise
RunFfmpegResult(o, fs, dir, timestamp) ==
    IF o = "exit0" /\ OutputFile(timestamp) \in fs[dir] THEN Bytes ELSE None

\* subprocess.run(cmd, check=True, timeout=30) ends, and with it compress_frames:
\* the encoder may have written its output file (an encoder that exits 0 without
\* one is the missing-output case), the output is read, the `finally:` runs
FfmpegExit(t) ==
    /\ pc[t] = "ffmpeg"
    /\ \E o \in Outcomes, wrote \in BOOLEAN :
        /\ wrote => MyDir(t) \in dirs
        /\ LET written == IF wrote
                            THEN [files EXCEPT ![MyDir(t)] = @ \cup {OutputFile(stamp[t])}]
                            ELSE files
           IN  /\ files' = Finally(written, MyDir(t), SavedFiles(saved[t], stamp[t]), stamp[t])
               /\ Return(t, RunFfmpegResult(o, written, MyDir(t), stamp[t]))
               /\ outcome' = [outcome EXCEPT ![t] =
                      EncoderRun(o, OutputFile(stamp[t]) \in written[MyDir(t)])]
    /\ objects' = Collect(objects, active_sessions, sess')
    /\ cleaned' = cleaned \cap Referenced(active_sessions, sess')
    /\ UNCHANGED <<compressors, active_sessions, session_lock, dirs>>
    /\ UNCHANGED mvars

----------------------------------------------------------------------------
(* cleanup_session, cleanup_all_sessions and VideoSession.cleanup *)

\* the session that the cleanup in progress works on
Target(t) ==
    IF call[t].op = "cleanup"
      THEN Lookup(active_sessions[call[t].c], CallKey(t))
      ELSE active_sessions[call[t].c][call[t].idx].session

\* cleanup_session: `with self._session_lock:`; nothing to do for an unknown key
CleanupSession(t, c, session_id, device_id) ==
    /\ pc[t] = "idle"
    /\ c \in compressors
    /\ session_lock[c] = None
    /\ IF HasKey(active_sessions[c], SessionKey(session_id, device_id))
         THEN /\ session_lock' = [session_lock EXCEPT ![c] = t]
              /\ pc' = [pc EXCEPT ![t] = "cleanup_files"]
              /\ call' = [call EXCEPT ![t] =
                     [op |-> "cleanup", c |-> c, session_id |-> session_id,
                      device_id |-> device_id, n |-> 0, idx |-> 0, caller |-> "host"]]
         ELSE UNCHANGED <<session_lock, pc, call>>
    /\ UNCHANGED <<compressors, active_sessions, objects, cleaned, dirs, files, sess,
                   stamp, saved, outcome, result>>
    /\ UNCHANGED mvars

\* cleanup_all_sessions: `with self._session_lock:`, then the loop over the table
CleanupAllSessions(t, c) ==
    /\ pc[t] = "idle"
    /\ c \in compressors
    /\ session_lock[c] = None
    /\ session_lock' = [session_lock EXCEPT ![c] = t]
    /\ pc' = [pc EXCEPT ![t] = "cleanup_files"]
    /\ call' = [call EXCEPT ![t] =
           [op |-> "cleanup_all", c |-> c, session_id |-> <<>>, device_id |-> <<>>,
            n |-> 0, idx |-> 1, caller |-> "host"]]
    /\ UNCHANGED <<compressors, active_sessions, objects, cleaned, dirs, files, sess,
                   stamp, saved, outcome, result>>
    /\ UNCHANGED mvars

\* a loop that stops after its first session
InLoopFirstOnly(t) ==
    call[t].op = "cleanup_all" =>
        (call[t].idx <= Len(active_sessions[call[t].c]) /\ call[t].idx <= 1)

\* the loop of cleanup_all_sessions has a session left
InLoop(t) ==
    call[t].op = "cleanup_all" => call[t].idx <= Len(active_sessions[call[t].c])

\* VideoSession.cleanup, the unlinks: the files of temp_files that exist (all of
\* them files of session_dir), then, if the directory exists, every file in it
CleanupUnlink(fs, ds, session) ==
    IF session.session_dir \in ds THEN [fs EXCEPT ![session.session_dir] = {}] ELSE fs

VideoSessionCleanupFiles(t) ==
    /\ pc[t] = "cleanup_files"
    /\ InLoop(t)
    /\ files' = CleanupUnlink(files, dirs, objects[Target(t)])
    /\ pc' = [pc EXCEPT ![t] = "cleanup_rmdir"]
    /\ UNCHANGED <<compressors, active_sessions, session_lock, objects, cleaned, dirs,
                   call, sess, stamp, saved, outcome, result>>
    /\ UNCHANGED mvars

\* VideoSession.cleanup, self.session_dir.rmdir(): OSError on a directory that is
\* not empty is passed over
CleanupRmdir(fs, ds, session) ==
    IF session.session_dir \in ds /\ fs[session.session_dir] = {}
      THEN ds \ {session.session_dir}
      ELSE ds

VideoSessionCleanupRmdir(t) ==
    /\ pc[t] = "cleanup_rmdir"
    /\ dirs' = CleanupRmdir(files, dirs, objects[Target(t)])
    /\ cleaned' = cleaned \cup {Target(t)}
    /\ IF call[t].op = "cleanup"
         THEN /\ pc' = [pc EXCEPT ![t] = "cleanup_del"]
              /\ call' = call
         ELSE /\ pc' = [pc EXCEPT ![t] = "cleanup_files"]
              /\ call' = [call EXCEPT ![t].idx = @ + 1]
    /\ UNCHANGED <<compressors, active_sessions, session_lock, objects, files, sess,
                   stamp, saved, outcome, result>>
    /\ UNCHANGED mvars

\* what cleanup_session leaves of the table: del self._active_sessions[session_key]
TableAfterCleanup(table, key) == DelKey(table, key)

\* cleanup_session: the `del`, and the lock is released
CleanupSessionDel(t) ==
    /\ pc[t] = "cleanup_del"
    /\ LET c == call[t].c IN
        /\ active_sessions' = [active_sessions EXCEPT
               ![c] = TableAfterCleanup(active_sessions[c], CallKey(t))]
        /\ session_lock' = [session_lock EXCEPT ![c] = None]
    /\ pc' = [pc EXCEPT ![t] = "idle"]
    /\ call' = [call EXCEPT ![t] = NoCall]
    /\ objects' = Collect(objects, active_sessions', sess)
    /\ cleaned' = cleaned \cap Referenced(active_sessions', sess)
    /\ UNCHANGED <<compressors, dirs, files, sess, stamp, saved, outcome, result>>
    /\ UNCHANGED mvars

\* cleanup_all_sessions after the loop: self._active_sessions.clear(), and the lock
\* is released
CleanupAllClear(t) ==
    /\ pc[t] = "cleanup_files"
    /\ ~InLoop(t)
    /\ LET c == call[t].c IN
        /\ active_sessions' = [active_sessions EXCEPT ![c] = <<>>]
        /\ session_lock' = [session_lock EXCEPT ![c] = None]
    /\ pc' = [pc EXCEPT ![t] = "idle"]
    /\ call' = [call EXCEPT ![t] = NoCall]
    /\ objects' = Collect(objects, active_sessions', sess)
    /\ cleaned' = cleaned \cap Referenced(active_sessions', sess)
    /\ UNCHANGED <<compressors, dirs, files, sess, stamp, saved, outcome, result>>
    /\ UNCHANGED mvars

----------------------------------------------------------------------------
(* Spec: host threads on one compressor; no session stream is at work *)

NoMux == [op |-> None, frames |-> <<>>, device |-> <<>>, groups |-> <<>>, gi |-> 0,
          warnings |-> {}]

\* the compressor that the host threads share
TheCompressor == <<640, 480>>

Init ==
    /\ compressors = {TheCompressor}
    /\ active_sessions = [c \in Resolutions |-> <<>>]
    /\ session_lock = [c \in Resolutions |-> None]
    /\ objects = [o \in ObjIds |-> NoObject]
    /\ cleaned = {}
    /\ dirs = {}
    /\ files = [d \in DirNames |-> {}]
    /\ pc = [t \in Threads |-> "idle"]
    /\ call = [t \in Threads |-> NoCall]
    /\ sess = [t \in Threads |-> NoObj]
    /\ stamp = [t \in Threads |-> NoStamp]
    /\ saved = [t \in Threads |-> 0]
    /\ outcome = [t \in Threads |-> None]
    /\ result = [t \in Threads |-> None]
    /\ ffmpeg_available = TRUE
    /\ compression_available = TRUE
    /\ enable_compression = FALSE
    /\ mux = NoMux
    /\ raised = FALSE
    /\ sink = <<>>
    /\ declared = {}
    /\ trackables = {}

Next ==
    \E t \in Threads :
        \/ \E p \in Pairs, n \in 0 .. MaxFrames :
               CompressFrameSequence(t, TheCompressor, p[1], p[2], n)
        \/ Timestamp(t)
        \/ SaveFrame(t)
        \/ SaveFrameFails(t)
        \/ FfmpegExit(t)
        \/ \E p \in Pairs : CleanupSession(t, TheCompressor, p[1], p[2])
        \/ CleanupAllSessions(t, TheCompressor)
        \/ VideoSessionCleanupFiles(t)
        \/ VideoSessionCleanupRmdir(t)
        \/ CleanupSessionDel(t)
        \/ CleanupAllClear(t)

Spec == Init /\ [][Next]_vars

----------------------------------------------------------------------------
(* Claims about the compressor, checked under Spec *)

SessionKeyOf(o) == SessionKey(objects[o].session_id, objects[o].device_id)

\* the VideoSession objects of a key that exist: held by a table or in use by a call
LiveSessions(key) == {o \in Referenced(active_sessions, sess) : SessionKeyOf(o) = key}

\* C1: in every interleaving of compress_frame_sequence, cleanup_session and
\* cleanup_all_sessions, at most one VideoSession object exists for a session key
C1_OneSessionObjectPerKey ==
    \A p \in Pairs : Cardinality(LiveSessions(SessionKey(p[1], p[2]))) <= 1

\* C2: at most one encode is in flight per session key: no two threads are inside
\* the external encoder for the same key at once
C2_OneEncodeInFlightPerKey ==
    \A t, u \in Threads :
        (t # u /\ pc[t] = "ffmpeg" /\ pc[u] = "ffmpeg") => CallKey(t) # CallKey(u)

InCompressFrames(t) == pc[t] \in {"compress_frames", "save", "ffmpeg"}

C4_BytesOnlyOnSuccess ==
    \A t \in Threads :
        /\ outcome[t] \in {"timeout", "nonzero", "no_output", "exception"} => result[t] = None
        /\ result[t] = Bytes <=> outcome[t] = "ok"

\* C4 witness: one call returned bytes after a successful run, another returned
\* nothing after a timeout
C4_Witness ==
    \E t, u \in Threads :
        /\ pc[t] = "idle" /\ outcome[t] = "ok" /\ result[t] = Bytes
        /\ pc[u] = "idle" /\ outcome[u] = "timeout" /\ result[u] = None

\* C6: when cleanup_session returns, in every interleaving with submits for the
\* key, the scratch directory of the session holds no file and is removed, and the
\* key is no longer in the session table
C6_CleanupLeavesNothing ==
    [][\A t \in Threads :
          (pc[t] = "cleanup_del" /\ pc'[t] = "idle")
              => LET dir == SessionDir(call[t].session_id, call[t].device_id) IN
                    /\ files'[dir] = {}
                    /\ dir \notin dirs'
                    /\ ~HasKey(active_sessions'[call[t].c], CallKey(t))]_cvars

\* the session a table holds for a key, if any
Entry(table, key) == IF HasKey(table, key) THEN Lookup(table, key) ELSE NoObj

EntersCompressFrames(t) == pc[t] # "compress_frames" /\ pc'[t] = "compress_frames"

\* C9: a session enters the table only by a submit for its key that finds none, it
\* leaves the table only by cleanup_session or cleanup_all_sessions, and between
\* the two every submit for the key is served by that same object
C9_SessionLifetime ==
    [][\A c \in Resolutions, p \in Pairs :
          LET key == SessionKey(p[1], p[2])
              before == Entry(active_sessions[c], key)
              after == Entry(active_sessions'[c], key)
          IN  /\ (before = NoObj /\ after # NoObj)
                    => \E t \in Threads :
                          /\ EntersCompressFrames(t)
                          /\ call'[t].c = c
                          /\ SessionKey(call'[t].session_id, call'[t].device_id) = key
                          /\ sess'[t] = after
              /\ (before # NoObj /\ after # before)
                    => /\ after = NoObj
                       /\ \E t \in Threads :
                             /\ call[t].op \in {"cleanup", "cleanup_all"}
                             /\ call[t].c = c
                             /\ pc'[t] = "idle"
              /\ \A t \in Threads :
                    (/\ EntersCompressFrames(t)
                     /\ call'[t].c = c
                     /\ SessionKey(call'[t].session_id, call'[t].device_id) = key
                     /\ before # NoObj)
                        => (sess'[t] = before /\ after = before)]_cvars

\* C9 witness: two submits for a key are being served by the one session the
\* table holds for it
C9_Witness ==
    \E t, u \in Threads :
        /\ t # u
        /\ InCompressFrames(t) /\ InCompressFrames(u)
        /\ sess[t] = sess[u]
        /\ Entry(active_sessions[call[t].c], CallKey(t)) = sess[t]

CleanupAllInProgress(t) == call[t].op = "cleanup_all"

\* C10: when cleanup_all_sessions returns, cleanup() has run on every session that
\* was tracked when it was called (the table does not change during the call) and
\* the table is empty
C10_CleanupAllCleansAll ==
    [][\A t \in Threads :
          CleanupAllInProgress(t) =>
              IF pc'[t] = "idle"
                THEN /\ TableObjects(active_sessions[call[t].c]) \subseteq cleaned
                     /\ active_sessions'[call[t].c] = <<>>
                ELSE active_sessions'[call[t].c] = active_sessions[call[t].c]]_cvars

\* C10 witness: cleanup_all_sessions has been through a table of two sessions and
\* is about to clear it
C10_Witness ==
    \E t \in Threads :
        /\ CleanupAllInProgress(t)
        /\ pc[t] = "cleanup_files"
        /\ Len(active_sessions[call[t].c]) = 2
        /\ call[t].idx = 3
        /\ cleaned = TableObjects(active_sessions[call[t].c])

----------------------------------------------------------------------------
(* The session stream: frames, grouping, entity paths *)

\* the thread that runs the session stream
MuxThread == "t1"

\* the longest batch of frames a save_* call gets
MaxBatch == 2

\* XRCpuImage.Format
RgbFormats == {"RGB24", "RGBA32", "BGRA32", "ARGB32"}
YuvFormats == {"ANDROID_YUV_420_888", "IOS_YP_CBCR_420_8BI_PLANAR_FULL_RANGE"}

\* the formats of the frames that arrive
ArrivingFormats == {"RGB24", "RGBA32", "UNSPECIFIED"}

\* the devices of the session that send frames
MuxDevices == {<<"d">>}

\* the device timestamp (seconds, nanos) of the k-th frame of a batch
DeviceTimestamp(k) == [seconds |-> k, nanos |-> 500000000]

\* f.device_timestamp.seconds + f.device_timestamp.nanos / 1e9, in milliseconds
DeviceTime(f) ==
    f.device_timestamp.seconds * 1000 + (f.device_timestamp.nanos \div 1000000)

\* a color frame; `index` is its place in the batch and stands for its payload
\* (image.planes[0].data, image.timestamp, the intrinsics); the intrinsics are
\* those of the image, their resolution its dimensions. n_planes is
\* len(image.planes); buffer_ok says that the plane buffers have the length the
\* format, width and height ask for. These frames are well formed.
ColorFrameShapes ==
    [format : ArrivingFormats, dims : Resolutions]

ColorBatches ==
    UNION {[1 .. n -> ColorFrameShapes] : n \in 0 .. MaxBatch}

ColorFrames(shapes) ==
    [k \in DOMAIN shapes |->
        [index |-> k, format |-> shapes[k].format,
         width |-> shapes[k].dims[1], height |-> shapes[k].dims[2],
         intrinsics_resolution |-> shapes[k].dims,
         n_planes |-> 1, buffer_ok |-> TRUE,
         device_timestamp |-> DeviceTimestamp(k)]]

TransformFrames(n) ==
    [k \in 1 .. n |-> [index |-> k, device_timestamp |-> DeviceTimestamp(k)]]

GroupKey(frame) == <<frame.format, frame.width, frame.height>>

\* a grouper that keys the frames by their dimensions alone
RECURSIVE GroupIntoByDims(_, _)
GroupIntoByDims(groups, frames) ==
    IF frames = <<>>
      THEN groups
      ELSE LET f == Head(frames)
               key == <<"RGB24", f.width, f.height>>
               at == {i \in DOMAIN groups : groups[i].key = key}
           IN  GroupIntoByDims(
                   IF at = {}
                     THEN Append(groups, [key |-> key, frames |-> <<f>>])
                     ELSE [groups EXCEPT ![CHOOSE i \in at : TRUE].frames = Append(@, f)],
                   Tail(frames))

\* the loop body of group_color_frames_by_format_and_dims: defaultdict(list)[key].append(frame)
RECURSIVE GroupInto(_, _)
GroupInto(groups, frames) ==
    IF frames = <<>>
      THEN groups
      ELSE LET f == Head(frames)
               at == {i \in DOMAIN groups : groups[i].key = GroupKey(f)}
           IN  GroupInto(
                   IF at = {}
                     THEN Append(groups, [key |-> GroupKey(f), frames |-> <<f>>])
                     ELSE [groups EXCEPT ![CHOOSE i \in at : TRUE].frames = Append(@, f)],
                   Tail(frames))

\* the groups in the order a dict yields them: by first appearance of the key
group_color_frames_by_format_and_dims(frames) == GroupInto(<<>>, frames)

\* rr.new_entity_path([f"{name}_{id}", f"{model}_{name}_{uid}", frame type, ...])
EntityPath(device, frame_type, rest) == <<SessionId, device, frame_type>> \o rest

\* f"{width}x{height}"
ResolutionPart(width, height) == <<width, "x", height>>

----------------------------------------------------------------------------
(* save_color_frames and save_transform_frames *)

\* should_compress
ShouldCompress(format, n) ==
    enable_compression /\ format \in RgbFormats /\ n > 1

\* the formats that save_color_frames has a branch for
SupportedColorFormats == RgbFormats \cup YuvFormats

\* format_static: the rr.PixelFormat of the static declaration
PixelFormat(format) ==
    CASE format = "ANDROID_YUV_420_888" -> "Y_U_V12_LimitedRange"
      [] format = "RGB24" -> "RGB"
      [] format \in {"RGBA32", "BGRA32", "ARGB32"} -> "RGBA"
      [] format = "IOS_YP_CBCR_420_8BI_PLANAR_FULL_RANGE" -> "NV12"

\* what each branch turns one frame's planes into
Conversion(format) ==
    CASE format = "ANDROID_YUV_420_888" -> "_to_i420_format"
      [] format = "RGB24" -> "reshape_h_w_3"
      [] format = "RGBA32" -> "reshape_h_w_4"
      [] format = "BGRA32" -> "_bgra_to_rgba"
      [] format = "ARGB32" -> "_argb_to_rgba"
      [] format = "IOS_YP_CBCR_420_8BI_PLANAR_FULL_RANGE" -> "plane_0"

\* _to_i420_format: `if len(image.planes) != 3`, a warning and np.array([])
BadPlanes(format, frame) == format = "ANDROID_YUV_420_888" /\ frame.n_planes # 3

\* the branches that reshape a plane buffer to (height, width, channels), or to
\* (height, row_stride) in _to_i420_format: ValueError when the length is another
Reshapes(format, frame) ==
    \/ format \in RgbFormats
    \/ format = "ANDROID_YUV_420_888" /\ frame.n_planes = 3

\* a column with the compressed stream in place of the frames, where there is one
ImageBufferDataCompressed(format, frames, compressed_data) ==
    IF compressed_data = Bytes
      THEN <<Bytes>>
      ELSE [k \in DOMAIN frames |->
               [conversion |-> Conversion(format), of |-> frames[k].index,
                empty |-> BadPlanes(format, frames[k])]]

\* `data`: the image buffers of a group, one for each of its frames, the empty
\* buffer for a frame _to_i420_format gave up on; compressed_data is logged and
\* dropped
ImageBufferData(format, frames, compressed_data) ==
    [k \in DOMAIN frames |->
        [conversion |-> Conversion(format), of |-> frames[k].index,
         empty |-> BadPlanes(format, frames[k])]]

DeviceTimes(frames) == [k \in DOMAIN frames |-> DeviceTime(frames[k])]

\* the four writes of one group: rr.log(intrinsics_entity_path, static),
\* rr.send_columns(intrinsics_entity_path), rr.log(entity_path, static),
\* rr.send_columns(entity_path)
ColorGroupWrites(device, group, compressed_data) ==
    LET format == group.key[1]
        frames == group.frames
        entity_path == EntityPath(device, "COLOR_FRAME",
                           ResolutionPart(group.key[2], group.key[3]))
        intrinsics_entity_path == EntityPath(device, "COLOR_FRAME",
                           ResolutionPart(frames[1].intrinsics_resolution[1],
                                          frames[1].intrinsics_resolution[2]))
    IN  << [kind |-> "log_static", path |-> intrinsics_entity_path,
            components |-> <<"Pinhole.indicator">>, times |-> <<>>, data |-> <<>>],
           [kind |-> "send_columns", path |-> intrinsics_entity_path,
            components |-> <<"PinholeProjectionBatch">>, times |-> DeviceTimes(frames),
            data |-> [k \in DOMAIN frames |-> [conversion |-> "intrinsics", of |-> frames[k].index]]],
           [kind |-> "log_static", path |-> entity_path,
            components |-> <<PixelFormat(format), "Image.indicator">>,
            times |-> <<>>, data |-> <<>>],
           [kind |-> "send_columns", path |-> entity_path,
            components |-> <<"ImageBufferBatch">>, times |-> DeviceTimes(frames),
            data |-> ImageBufferData(format, frames, compressed_data)] >>

\* the two writes of save_transform_frames
TransformWrites(device, frames) ==
    LET entity_path == EntityPath(device, "TRANSFORM_FRAME", <<>>) IN
    << [kind |-> "log_static", path |-> entity_path,
        components |-> <<"Transform3D.indicator">>, times |-> <<>>, data |-> <<>>],
       [kind |-> "send_columns", path |-> entity_path,
        components |-> <<"TransformMat3x3Batch", "Translation3DBatch">>,
        times |-> DeviceTimes(frames),
        data |-> [k \in DOMAIN frames |-> [conversion |-> "y_down_to_y_up", of |-> frames[k].index]]] >>

StaticPaths(writes) == {writes[i].path : i \in {j \in DOMAIN writes : writes[j].kind = "log_static"}}

\* `if len(frames) == 0:` comes with a logger.warning in every save_* but
\* save_gyroscope_frames
WarnsWhenEmpty(op) == op # "gyroscope"

\* a save_* call begins: what the last call wrote is in the recording; `logged`
\* are the warnings of a call that is over in one step
BeginLogging(op, frames, device, groups, logged) ==
    /\ pc[MuxThread] = "idle"
    /\ declared' = declared \cup StaticPaths(sink)
    /\ raised' = FALSE
    /\ mux' = [op |-> op, frames |-> frames, device |-> device, groups |-> groups,
               gi |-> IF groups = <<>> THEN 0 ELSE 1,
               warnings |-> IF Len(frames) = 0
                              THEN (IF WarnsWhenEmpty(op) THEN {"no_frames"} ELSE {})
                              ELSE logged]
    /\ result' = [result EXCEPT ![MuxThread] = None]
    /\ outcome' = [outcome EXCEPT ![MuxThread] = None]
    /\ UNCHANGED <<ffmpeg_available, compression_available, enable_compression>>

Begin(op, frames, device, groups) == BeginLogging(op, frames, device, groups, {})

\* save_transform_frames: an empty batch is a warning and nothing else
SaveTransformFrames(frames, device) ==
    /\ Begin("transform", frames, device, <<>>)
    /\ sink' = IF Len(frames) = 0 THEN <<>> ELSE TransformWrites(device, frames)
    /\ UNCHANGED <<compressors, active_sessions, session_lock, objects, cleaned, dirs,
                   files, pc, call, sess, stamp, saved, trackables>>

\* save_color_frames up to its loop over the groups
SaveColorFrames(frames, device) ==
    /\ Begin("color", frames, device, group_color_frames_by_format_and_dims(frames))
    /\ sink' = <<>>
    /\ pc' = [pc EXCEPT ![MuxThread] = IF Len(frames) = 0 THEN "idle" ELSE "color_group"]
    /\ UNCHANGED <<compressors, active_sessions, session_lock, objects, cleaned, dirs,
                   files, call, sess, stamp, saved, trackables>>

TheGroup == mux.groups[mux.gi]

\* the loop goes on to the next group, or save_color_frames returns
NextGroup(logged) ==
    /\ mux' = [mux EXCEPT !.gi = @ + 1, !.warnings = @ \cup logged]
    /\ pc' = [pc EXCEPT ![MuxThread] =
                 IF mux.gi = Len(mux.groups) THEN "idle" ELSE "color_group"]

\* a frame of the group whose plane buffer cannot be reshaped
ReshapeFails(group) ==
    \E k \in DOMAIN group.frames :
        Reshapes(group.key[1], group.frames[k]) /\ ~group.frames[k].buffer_ok

\* np.array over buffers of which some are empty and some are not: an array of
\* objects, or ValueError (inhomogeneous shape), as the numpy at hand has it
Ragged(group) ==
    /\ \E k \in DOMAIN group.frames : BadPlanes(group.key[1], group.frames[k])
    /\ \E k \in DOMAIN group.frames : ~BadPlanes(group.key[1], group.frames[k])

\* what the branch of a group logs as warnings
GroupWarnings(group) ==
    (IF group.key[1] \in SupportedColorFormats THEN {} ELSE {"unsupported_format"})
    \cup (IF \E k \in DOMAIN group.frames : BadPlanes(group.key[1], group.frames[k])
            THEN {"bad_image"} ELSE {})

\* the conversion of a group raises ValueError, no `try:` is around it, and the
\* error leaves save_color_frames: this group and those after it are not written
ColorGroupRaises ==
    /\ pc[MuxThread] = "color_group"
    /\ ReshapeFails(TheGroup) \/ Ragged(TheGroup)
    /\ raised' = TRUE
    /\ pc' = [pc EXCEPT ![MuxThread] = "idle"]
    /\ mux' = [mux EXCEPT !.warnings = @ \cup GroupWarnings(TheGroup)]
    /\ UNCHANGED <<compressors, active_sessions, session_lock, objects, cleaned, dirs,
                   files, call, sess, stamp, saved, outcome, result>>
    /\ UNCHANGED <<ffmpeg_available, compression_available, enable_compression,
                   sink, declared, trackables>>

\* one group that is not sent to the compressor: its writes, or the `continue` of
\* an unsupported format
ColorGroup ==
    /\ pc[MuxThread] = "color_group"
    /\ ~(TheGroup.key[1] = "RGB24" /\ ShouldCompress("RGB24", Len(TheGroup.frames)))
    /\ ~ReshapeFails(TheGroup)
    /\ sink' = IF TheGroup.key[1] \in SupportedColorFormats
                 THEN sink \o ColorGroupWrites(mux.device, TheGroup, None)
                 ELSE sink
    /\ NextGroup(GroupWarnings(TheGroup))
    /\ UNCHANGED <<compressors, active_sessions, session_lock, objects, cleaned, dirs,
                   files, call, sess, stamp, saved, outcome, result>>
    /\ UNCHANGED <<ffmpeg_available, compression_available, enable_compression, raised,
                   declared, trackables>>

\* compressor_key = f"{width}x{height}"
CompressorKey(group) == <<group.key[2], group.key[3]>>

\* an RGB24 group that is sent to the compressor, _compress_rgb_frames: get or
\* create the compressor of the resolution (FFmpegVideoCompressor.__init__ passes
\* _verify_ffmpeg), then compress_frame_sequence up to compress_frames
CompressRgbFrames ==
    /\ pc[MuxThread] = "color_group"
    /\ TheGroup.key[1] = "RGB24" /\ ShouldCompress("RGB24", Len(TheGroup.frames))
    /\ ~ReshapeFails(TheGroup)
    /\ enable_compression /\ compression_available
    /\ CompressorKey(TheGroup) \in compressors \/ ffmpeg_available
    /\ compressors' = compressors \cup {CompressorKey(TheGroup)}
    /\ GetOrCreate(MuxThread, CompressorKey(TheGroup), SessionId, mux.device)
    /\ pc' = [pc EXCEPT ![MuxThread] = "compress_frames"]
    /\ call' = [call EXCEPT ![MuxThread] =
           [op |-> "submit", c |-> CompressorKey(TheGroup), session_id |-> SessionId,
            device_id |-> mux.device, n |-> Len(TheGroup.frames), idx |-> 0,
            caller |-> "mux"]]
    /\ result' = [result EXCEPT ![MuxThread] = None]
    /\ outcome' = [outcome EXCEPT ![MuxThread] = None]
    /\ UNCHANGED <<stamp, saved>>
    /\ UNCHANGED mvars

\* _compress_rgb_frames where the resolution has no compressor yet and the host no
\* ffmpeg: _verify_ffmpeg raises RuntimeError outside the `try:`, and the error
\* leaves save_color_frames
CompressRgbFramesRaises ==
    /\ pc[MuxThread] = "color_group"
    /\ TheGroup.key[1] = "RGB24" /\ ShouldCompress("RGB24", Len(TheGroup.frames))
    /\ ~ReshapeFails(TheGroup)
    /\ enable_compression /\ compression_available
    /\ CompressorKey(TheGroup) \notin compressors /\ ~ffmpeg_available
    /\ raised' = TRUE
    /\ pc' = [pc EXCEPT ![MuxThread] = "idle"]
    /\ UNCHANGED <<compressors, active_sessions, session_lock, objects, cleaned, dirs,
                   files, call, sess, stamp, saved, outcome, result>>
    /\ UNCHANGED <<ffmpeg_available, compression_available, enable_compression, mux,
                   sink, declared, trackables>>

\* the RGB24 branch after _compress_rgb_frames returned: data = np.array(raw_frames),
\* then the writes of the group
ColorGroupCompressed ==
    /\ pc[MuxThread] = "color_compressed"
    /\ sink' = sink \o ColorGroupWrites(mux.device, TheGroup, result[MuxThread])
    /\ NextGroup({})
    /\ UNCHANGED <<compressors, active_sessions, session_lock, objects, cleaned, dirs,
                   files, call, sess, stamp, saved, outcome, result>>
    /\ UNCHANGED <<ffmpeg_available, compression_available, enable_compression, raised,
                   declared, trackables>>

----------------------------------------------------------------------------
(* SpecMux: one session stream, its save_* calls one after another *)

\* SessionStream.__init__(info, stream, enable_compression, compression_quality)
\* on a host with or without ffmpeg
InitMux ==
    /\ compressors = {}
    /\ active_sessions = [c \in Resolutions |-> <<>>]
    /\ session_lock = [c \in Resolutions |-> None]
    /\ objects = [o \in ObjIds |-> NoObject]
    /\ cleaned = {}
    /\ dirs = {}
    /\ files = [d \in DirNames |-> {}]
    /\ pc = [t \in Threads |-> "idle"]
    /\ call = [t \in Threads |-> NoCall]
    /\ sess = [t \in Threads |-> NoObj]
    /\ stamp = [t \in Threads |-> NoStamp]
    /\ saved = [t \in Threads |-> 0]
    /\ outcome = [t \in Threads |-> None]
    /\ result = [t \in Threads |-> None]
    /\ ffmpeg_available \in BOOLEAN
    /\ compression_available \in BOOLEAN
    /\ \E requested \in BOOLEAN :
           enable_compression = (requested /\ compression_available)
    /\ mux = NoMux
    /\ raised = FALSE
    /\ sink = <<>>
    /\ declared = {}
    /\ trackables = {}

\* the host hands the stream a batch of color frames of one of its devices
ColorBatchArrives ==
    /\ pc[MuxThread] = "idle"
    /\ \E b \in ColorBatches, d \in MuxDevices : SaveColorFrames(ColorFrames(b), d)

\* the host hands the stream a batch of transform frames of one of its devices
TransformBatchArrives ==
    /\ pc[MuxThread] = "idle"
    /\ \E n \in 0 .. MaxBatch, d \in MuxDevices :
           SaveTransformFrames(TransformFrames(n), d)

NextMux ==
    \/ ColorBatchArrives
    \/ TransformBatchArrives
    \/ ColorGroup
    \/ CompressRgbFrames
    \/ CompressRgbFramesRaises
    \/ ColorGroupCompressed
    \/ Timestamp(MuxThread)
    \/ SaveFrame(MuxThread)
    \/ SaveFrameFails(MuxThread)
    \/ FfmpegExit(MuxThread)

SpecMux == InitMux /\ [][NextMux]_vars

----------------------------------------------------------------------------
(* Claims about the session stream, checked under SpecMux *)

\* the writes of save_color_frames for a batch when nothing is compressed: those
\* of its groups, in order, the groups of an unsupported format left out
RECURSIVE WritesOfGroups(_, _)
WritesOfGroups(device, groups) ==
    IF groups = <<>>
      THEN <<>>
      ELSE (IF Head(groups).key[1] \in SupportedColorFormats
              THEN ColorGroupWrites(device, Head(groups), None)
              ELSE <<>>)
           \o WritesOfGroups(device, Tail(groups))

UncompressedWrites(frames, device) ==
    WritesOfGroups(device, group_color_frames_by_format_and_dims(frames))

ColorCallReturned == pc[MuxThread] = "idle" /\ mux.op = "color"

\* a group of the batch went through the compressor
UsedCompressor ==
    \E i \in DOMAIN mux.groups :
        /\ mux.groups[i].key[1] = "RGB24"
        /\ ShouldCompress("RGB24", Len(mux.groups[i].frames))

\* C5: what save_color_frames writes to the sink for a batch is the same whether
\* compression is disabled, succeeds or fails (timeout, non-zero exit, missing
\* output, a frame that cannot be saved): the writes of the uncompressed frames.
C5_SinkWritesIndependentOfCompression ==
    (ffmpeg_available \/ ~enable_compression) =>
        (ColorCallReturned => sink = UncompressedWrites(mux.frames, mux.device))

\* C5 witness: a batch with an RGB24 group went through the compressor, the
\* encoder returned the compressed stream, and the group's frames are in the sink.
C5_Witness ==
    /\ ColorCallReturned /\ UsedCompressor /\ ~raised
    /\ outcome[MuxThread] = "ok" /\ result[MuxThread] = Bytes
    /\ sink # <<>>

\* C7: each entity path gets exactly one static declaration, and after it only
\* column writes: no path is declared again by a later write or a later call, and
\* no column is sent to a path that was not declared.
C7_OneStaticDeclarationPerPath ==
    \A i \in DOMAIN sink :
        LET before == declared \cup StaticPaths(SubSeq(sink, 1, i - 1)) IN
        IF sink[i].kind = "log_static"
          THEN sink[i].path \notin before
          ELSE sink[i].path \in before

\* C8: with the encoder missing on the host, no save_color_frames call raises or
\* loses frames: every call returns with the writes of its whole batch.
C8_MissingEncoderHarmless ==
    ~ffmpeg_available =>
        /\ ~raised
        /\ ColorCallReturned => sink = UncompressedWrites(mux.frames, mux.device)

\* C13: a group of a color batch is submitted to the compressor if and only if
\* should_compress holds for it: compression is enabled, the format is RGB24,
\* RGBA32, BGRA32 or ARGB32, and the group has more than one frame. (A step that
\* ends in the error of a missing encoder was on its way to the compressor.)
C13_SubmittedIffShouldCompress ==
    [][pc[MuxThread] = "color_group" =>
          (ShouldCompress(TheGroup.key[1], Len(TheGroup.frames))
              <=> (pc'[MuxThread] = "compress_frames" \/ raised'))]_vars

----------------------------------------------------------------------------
(* SpecFrames: one session stream without compression, its save_color_frames *)
(* calls one after another, the frames well formed or not                    *)

\* the longest batch of color frames of SpecFrames
MaxShaped == 3

\* the one resolution of the frames of SpecFrames
ShapedDims == <<640, 480>>

\* what arrives: RGB24 and RGBA32 frames whose buffer has the right length or
\* not, ANDROID_YUV_420_888 frames of three planes or one
FrameShapes ==
    { [buffer_ok |-> TRUE, format |-> "RGB24", n_planes |-> 1],
      [buffer_ok |-> FALSE, format |-> "RGB24", n_planes |-> 1],
      [buffer_ok |-> TRUE, format |-> "RGBA32", n_planes |-> 1],
      [buffer_ok |-> FALSE, format |-> "RGBA32", n_planes |-> 1],
      [buffer_ok |-> TRUE, format |-> "ANDROID_YUV_420_888", n_planes |-> 3],
      [buffer_ok |-> TRUE, format |-> "ANDROID_YUV_420_888", n_planes |-> 1] }

ShapedBatches ==
    UNION {[1 .. n -> FrameShapes] : n \in 0 .. MaxShaped}

ShapedColorFrames(shapes) ==
    [k \in DOMAIN shapes |->
        [buffer_ok |-> shapes[k].buffer_ok,
         device_timestamp |-> DeviceTimestamp(k),
         format |-> shapes[k].format,
         height |-> ShapedDims[2],
         index |-> k,
         intrinsics_resolution |-> ShapedDims,
         n_planes |-> shapes[k].n_planes,
         width |-> ShapedDims[1]]]

\* SessionStream.__init__(info, stream): enable_compression defaults to False
InitFrames == InitMux /\ ~enable_compression

\* the host hands the stream a batch of color frames, well formed or not
ShapedBatchArrives ==
    /\ pc[MuxThread] = "idle"
    /\ \E b \in ShapedBatches, d \in MuxDevices :
           SaveColorFrames(ShapedColorFrames(b), d)

NextFrames ==
    \/ ShapedBatchArrives
    \/ ColorGroup
    \/ ColorGroupRaises

SpecFrames == InitFrames /\ [][NextFrames]_vars

----------------------------------------------------------------------------
(* Claims about save_color_frames, checked under SpecFrames *)

IsImageColumns(w) ==
    w.kind = "send_columns" /\ w.components = <<"ImageBufferBatch">>

\* the device-clock values of the image columns sent to a path, in the order sent
RECURSIVE ImageTimesTo(_, _)
ImageTimesTo(path, writes) ==
    IF writes = <<>>
      THEN <<>>
      ELSE (IF IsImageColumns(Head(writes)) /\ Head(writes).path = path
              THEN Head(writes).times ELSE <<>>)
           \o ImageTimesTo(path, Tail(writes))

\* the frames of a batch come sorted by device timestamp
SortedByDeviceTime(frames) ==
    \A a, b \in DOMAIN frames : a < b => DeviceTime(frames[a]) <= DeviceTime(frames[b])

\* C11: for a color batch sorted by device timestamp, the device-clock values of
\* the image columns written to each entity path, in the order the writes are
\* issued, never decrease.
C11_TimesNonDecreasingPerPath ==
    (mux.op = "color" /\ SortedByDeviceTime(mux.frames)) =>
        \A i \in DOMAIN sink :
            LET ts == ImageTimesTo(sink[i].path, sink) IN
            \A a, b \in DOMAIN ts : a < b => ts[a] <= ts[b]

\* a plane buffer of the frame has not the length its format and dimensions ask for
Malformed(frame) == Reshapes(frame.format, frame) /\ ~frame.buffer_ok

WellFormed(frame) == ~Malformed(frame)

ThreePlanes(frame) == ~BadPlanes(frame.format, frame)

\* C16: a color frame with a malformed shape is skipped with a log entry:
\* save_color_frames raises no error and the other frames and groups of the batch
\* are written to the sink.
C16_MalformedFrameSkipped ==
    (/\ ColorCallReturned
     /\ \E k \in DOMAIN mux.frames : Malformed(mux.frames[k])
     /\ \A k \in DOMAIN mux.frames : ThreePlanes(mux.frames[k]))
        => /\ ~raised
           /\ mux.warnings # {}
           /\ sink = UncompressedWrites(SelectSeq(mux.frames, WellFormed), mux.device)

\* C17: a planar-YUV frame whose plane count is not 3 converts to an empty buffer
\* with a warning and is skipped: it contributes no row to the column writes, and
\* the other frames of the batch are written with one image buffer and one time
\* value each.
C17_BadPlaneCountSkipped ==
    (/\ ColorCallReturned
     /\ \E k \in DOMAIN mux.frames : ~ThreePlanes(mux.frames[k])
     /\ \A k \in DOMAIN mux.frames : WellFormed(mux.frames[k]))
        => /\ ~raised
           /\ "bad_image" \in mux.warnings
           /\ sink = UncompressedWrites(SelectSeq(mux.frames, ThreePlanes), mux.device)

----------------------------------------------------------------------------
(* save_depth_frames, save_gyroscope_frames and save_audio_frames *)

DepthFormats == {"DEPTHFLOAT32", "DEPTHUINT16"}

\* what arrives as depth frames: format and environment_depth_temporal_smoothing_enabled
DepthShapes ==
    { [format |-> "DEPTHFLOAT32", smoothing |-> FALSE],
      [format |-> "DEPTHFLOAT32", smoothing |-> TRUE],
      [format |-> "DEPTHUINT16", smoothing |-> FALSE],
      [format |-> "UNSPECIFIED", smoothing |-> FALSE] }

DepthFrames(shapes) ==
    [k \in DOMAIN shapes |->
        [device_timestamp |-> DeviceTimestamp(k),
         environment_depth_temporal_smoothing_enabled |-> shapes[k].smoothing,
         format |-> shapes[k].format,
         height |-> ShapedDims[2],
         index |-> k,
         width |-> ShapedDims[1]]]

DepthGroupKey(frame) ==
    <<frame.format, frame.width, frame.height,
      frame.environment_depth_temporal_smoothing_enabled>>

\* a grouper that puts each frame in front of its group
RECURSIVE GroupDepthIntoFront(_, _)
GroupDepthIntoFront(groups, frames) ==
    IF frames = <<>>
      THEN groups
      ELSE LET f == Head(frames)
               at == {i \in DOMAIN groups : groups[i].key = DepthGroupKey(f)}
           IN  GroupDepthIntoFront(
                   IF at = {}
                     THEN Append(groups, [key |-> DepthGroupKey(f), frames |-> <<f>>])
                     ELSE [groups EXCEPT ![CHOOSE i \in at : TRUE].frames = <<f>> \o @],
                   Tail(frames))

\* the loop body of group_depth_frames_by_format_dims_and_smoothness
RECURSIVE GroupDepthInto(_, _)
GroupDepthInto(groups, frames) ==
    IF frames = <<>>
      THEN groups
      ELSE LET f == Head(frames)
               at == {i \in DOMAIN groups : groups[i].key = DepthGroupKey(f)}
           IN  GroupDepthInto(
                   IF at = {}
                     THEN Append(groups, [key |-> DepthGroupKey(f), frames |-> <<f>>])
                     ELSE [groups EXCEPT ![CHOOSE i \in at : TRUE].frames = Append(@, f)],
                   Tail(frames))

group_depth_frames_by_format_dims_and_smoothness(frames) == GroupDepthInto(<<>>, frames)

\* channel_datatype of the static declaration
ChannelDatatype(format) ==
    CASE format = "DEPTHFLOAT32" -> "F32"
      [] format = "DEPTHUINT16" -> "U16"

\* the two writes of one depth group, none for a format without a branch
DepthGroupWrites(device, group) ==
    LET entity_path == EntityPath(device, "DEPTH_FRAME",
                           ResolutionPart(group.key[2], group.key[3])
                           \o <<IF group.key[4] THEN "smoothed" ELSE "raw">>)
    IN  IF group.key[1] \notin DepthFormats
          THEN <<>>
          ELSE << [kind |-> "log_static", path |-> entity_path,
                   components |-> <<ChannelDatatype(group.key[1]), "DepthImage.indicator">>,
                   times |-> <<>>, data |-> <<>>],
                  [kind |-> "send_columns", path |-> entity_path,
                   components |-> <<"ImageBufferBatch">>,
                   times |-> DeviceTimes(group.frames),
                   data |-> [k \in DOMAIN group.frames |->
                                [conversion |-> "plane_0", of |-> group.frames[k].index]]] >>

RECURSIVE DepthWrites(_, _)
DepthWrites(device, groups) ==
    IF groups = <<>>
      THEN <<>>
      ELSE DepthGroupWrites(device, Head(groups)) \o DepthWrites(device, Tail(groups))

DepthWarnings(groups) ==
    IF \E i \in DOMAIN groups : groups[i].key[1] \notin DepthFormats
      THEN {"unsupported_format"} ELSE {}

\* what a call that is over in one step leaves of the compressor and the thread
RestUnchanged ==
    UNCHANGED <<compressors, active_sessions, session_lock, objects, cleaned, dirs,
                files, pc, call, sess, stamp, saved>>

\* save_depth_frames
SaveDepthFrames(frames, device) ==
    LET groups == group_depth_frames_by_format_dims_and_smoothness(frames) IN
    /\ BeginLogging("depth", frames, device, groups, DepthWarnings(groups))
    /\ sink' = IF Len(frames) = 0 THEN <<>> ELSE DepthWrites(device, groups)
    /\ UNCHANGED trackables
    /\ RestUnchanged

\* a batch of n gyroscope or audio frames
SensorFrames(n) ==
    [k \in 1 .. n |-> [index |-> k, device_timestamp |-> DeviceTimestamp(k)]]

\* rr.log(static) and rr.send_columns of one of attitude, rotation_rate, gravity,
\* acceleration
GyroscopePartWrites(device, frames, part, indicator, batch) ==
    LET entity_path == EntityPath(device, "GYROSCOPE_FRAME", <<part>>) IN
    << [kind |-> "log_static", path |-> entity_path,
        components |-> <<indicator>>, times |-> <<>>, data |-> <<>>],
       [kind |-> "send_columns", path |-> entity_path,
        components |-> <<batch>>, times |-> DeviceTimes(frames),
        data |-> [k \in DOMAIN frames |-> [conversion |-> part, of |-> frames[k].index]]] >>

GyroscopeWrites(device, frames) ==
    GyroscopePartWrites(device, frames, "attitude", "Boxes3D.indicator", "RotationQuatBatch")
    \o GyroscopePartWrites(device, frames, "rotation_rate", "Arrows3D.indicator", "Vector3DBatch")
    \o GyroscopePartWrites(device, frames, "gravity", "Arrows3D.indicator", "Vector3DBatch")
    \o GyroscopePartWrites(device, frames, "acceleration", "Arrows3D.indicator", "Vector3DBatch")

\* save_gyroscope_frames: an empty batch is a return and nothing else
SaveGyroscopeFrames(frames, device) ==
    /\ Begin("gyroscope", frames, device, <<>>)
    /\ sink' = IF Len(frames) = 0 THEN <<>> ELSE GyroscopeWrites(device, frames)
    /\ UNCHANGED trackables
    /\ RestUnchanged

AudioWrites(device, frames) ==
    LET entity_path == EntityPath(device, "AUDIO_FRAME", <<>>) IN
    << [kind |-> "log_static", path |-> entity_path,
        components |-> <<"Scalar.indicator">>, times |-> <<>>, data |-> <<>>],
       [kind |-> "send_columns", path |-> entity_path,
        components |-> <<"ScalarBatch">>, times |-> DeviceTimes(frames),
        data |-> [k \in DOMAIN frames |-> [conversion |-> "samples", of |-> frames[k].index]]] >>

\* save_audio_frames
SaveAudioFrames(frames, device) ==
    /\ Begin("audio", frames, device, <<>>)
    /\ sink' = IF Len(frames) = 0 THEN <<>> ELSE AudioWrites(device, frames)
    /\ UNCHANGED trackables
    /\ RestUnchanged

----------------------------------------------------------------------------
(* save_plane_detection_frames, save_point_cloud_detection_frames and *)
(* save_mesh_detection_frames                                          *)

\* the longest batch of detection frames
MaxDetect == 2

\* trackable_id (sub_id_1, sub_id_2) of the planes and point clouds, instance_id
\* of the mesh filters
TrackableIds == {1, 2}

DetectionOps == {"plane", "point_cloud", "mesh"}

\* what arrives as plane detection frames: the state, the trackable, and the
\* number of points of plane.boundary ("boundary can sometimes 0 points")
PlaneShapes ==
    { [n_boundary |-> n, state |-> st, trackable |-> id] :
          n \in {0, 3}, st \in {"ADDED", "UPDATED"}, id \in TrackableIds }
    \cup { [n_boundary |-> 0, state |-> "REMOVED", trackable |-> id] : id \in TrackableIds }

\* what arrives as point cloud and mesh detection frames, those of one point
\* cloud and one mesh filter
TrackableShapes ==
    { [state |-> st, trackable |-> 1] : st \in {"ADDED", "UPDATED", "REMOVED"} }

PlaneBatches ==
    UNION {[1 .. n -> PlaneShapes] : n \in 0 .. MaxDetect}

TrackableBatches ==
    UNION {[1 .. n -> TrackableShapes] : n \in 0 .. MaxDetect}

PlaneDetectionFrames(shapes) ==
    [k \in DOMAIN shapes |->
        [device_timestamp |-> DeviceTimestamp(k),
         index |-> k,
         n_boundary |-> shapes[k].n_boundary,
         state |-> shapes[k].state,
         trackable |-> shapes[k].trackable]]

\* a point cloud has two points, a mesh one sub-mesh
TrackableFrames(shapes) ==
    [k \in DOMAIN shapes |->
        [device_timestamp |-> DeviceTimestamp(k),
         identifiers |-> <<1, 2>>,
         index |-> k,
         state |-> shapes[k].state,
         sub_meshes |-> <<1>>,
         trackable |-> shapes[k].trackable]]

\* f"{trackable_id.sub_id_1}_{trackable_id.sub_id_2}"
TrackableKey(frame) == <<frame.trackable>>

\* a filter in which the boundary gates the added frames as well
PlaneChangedWithBoundary(frame) ==
    (frame.state = "ADDED" \/ frame.state = "UPDATED") /\ frame.n_boundary > 0

\* state == ADDED or state == UPDATED and len(boundary) > 0
PlanePositivelyChanged(frame) ==
    frame.state = "ADDED" \/ (frame.state = "UPDATED" /\ frame.n_boundary > 0)

\* state == ADDED or state == UPDATED
PositivelyChanged(frame) == frame.state \in {"ADDED", "UPDATED"}

\* state == STATE_REMOVED (save_mesh_detection_frames compares with the
\* STATE_REMOVED of PointCloudDetectionFrame, taken to be that of MeshDetectionFrame)
NegativelyChanged(frame) == frame.state = "REMOVED"

TrackableKeys(frames) == [k \in DOMAIN frames |-> TrackableKey(frames[k])]

ClearFlags(frames) == [k \in DOMAIN frames |-> TRUE]

\* rr.send_columns(entity_path, times, [EntityPathBatch, ClearIsRecursiveBatch]):
\* `times` is the time column, `frames` what the comprehensions of the two
\* component columns go over
ClearingWrite(entity_path, times, frames) ==
    [kind |-> "send_columns", path |-> entity_path,
     components |-> <<"EntityPathBatch", "ClearIsRecursiveBatch">>,
     times |-> times,
     data |-> [k \in DOMAIN frames |-> [conversion |-> "clear", of |-> frames[k].index]],
     entity_paths |-> TrackableKeys(frames),
     clear |-> ClearFlags(frames)]

\* the three writes of save_plane_detection_frames
PlaneWrites(device, frames) ==
    LET entity_path == EntityPath(device, "PLANE_DETECTION_FRAME", <<>>)
        positively_changed_frames == SelectSeq(frames, PlanePositivelyChanged)
        negatively_changed_frames == SelectSeq(frames, NegativelyChanged)
    IN  << [kind |-> "log_static", path |-> entity_path,
            components |-> <<"LineStrips3D.indicator">>, times |-> <<>>, data |-> <<>>,
            entity_paths |-> <<>>, clear |-> <<>>],
           [kind |-> "send_columns", path |-> entity_path,
            components |-> <<"LineStrip3DBatch", "EntityPathBatch", "ColorBatch", "TextBatch">>,
            times |-> DeviceTimes(positively_changed_frames),
            data |-> [k \in DOMAIN positively_changed_frames |->
                         [conversion |-> "_convert_2d_to_3d_boundary_points",
                          of |-> positively_changed_frames[k].index]],
            entity_paths |-> TrackableKeys(positively_changed_frames),
            clear |-> <<>>],
           ClearingWrite(entity_path, DeviceTimes(negatively_changed_frames),
                         negatively_changed_frames) >>

\* _convert_2d_to_3d_boundary_points warns of a boundary of no points
PlaneWarnings(frames) ==
    IF \E k \in DOMAIN frames : PlanePositivelyChanged(frames[k]) /\ frames[k].n_boundary = 0
      THEN {"no_boundary"} ELSE {}

\* the rows of the write "for each point in the cloud": for f in frames for i in
\* f.point_cloud.identifiers
RECURSIVE PointRows(_)
PointRows(frames) ==
    IF frames = <<>>
      THEN <<>>
      ELSE LET f == Head(frames) IN
           [i \in DOMAIN f.identifiers |->
               [time |-> DeviceTime(f), path |-> TrackableKey(f) \o <<f.identifiers[i]>>,
                of |-> f.index]]
           \o PointRows(Tail(frames))

\* the four writes of save_point_cloud_detection_frames
PointCloudWrites(device, frames) ==
    LET entity_path == EntityPath(device, "POINT_CLOUD_DETECTION_FRAME", <<>>)
        positively_changed_frames == SelectSeq(frames, PositivelyChanged)
        negatively_changed_frames == SelectSeq(frames, NegativelyChanged)
        rows == PointRows(positively_changed_frames)
    IN  << [kind |-> "log_static", path |-> entity_path,
            components |-> <<"Points3D.indicator">>, times |-> <<>>, data |-> <<>>,
            entity_paths |-> <<>>, clear |-> <<>>],
           [kind |-> "send_columns", path |-> entity_path,
            components |-> <<"EntityPathBatch", "ColorBatch", "TextBatch">>,
            times |-> DeviceTimes(positively_changed_frames),
            data |-> [k \in DOMAIN positively_changed_frames |->
                         [conversion |-> "tracking_state",
                          of |-> positively_changed_frames[k].index]],
            entity_paths |-> TrackableKeys(positively_changed_frames),
            clear |-> <<>>],
           [kind |-> "send_columns", path |-> entity_path,
            components |-> <<"EntityPathBatch", "Position3DBatch">>,
            times |-> [k \in DOMAIN rows |-> rows[k].time],
            data |-> [k \in DOMAIN rows |-> [conversion |-> "position", of |-> rows[k].of]],
            entity_paths |-> [k \in DOMAIN rows |-> rows[k].path],
            clear |-> <<>>],
           ClearingWrite(entity_path, DeviceTimes(negatively_changed_frames),
                         negatively_changed_frames) >>

\* rr.set_time_seconds and rr.log(f"{entity_path}/{instance_id}", rr.Mesh3D(...))
\* for each sub-mesh of each frame
RECURSIVE MeshLogs(_, _)
MeshLogs(entity_path, frames) ==
    IF frames = <<>>
      THEN <<>>
      ELSE LET f == Head(frames) IN
           [i \in DOMAIN f.sub_meshes |->
               [kind |-> "log", path |-> entity_path \o TrackableKey(f),
                components |-> <<"Mesh3D">>, times |-> <<DeviceTime(f)>>,
                data |-> <<[conversion |-> "DracoPy.decode", of |-> f.index]>>,
                entity_paths |-> <<>>, clear |-> <<>>]]
           \o MeshLogs(entity_path, Tail(frames))

\* f.device_timestamp.seconds for each frame, in milliseconds
DeviceSeconds(frames) == [k \in DOMAIN frames |-> frames[k].device_timestamp.seconds * 1000]

\* the writes of save_mesh_detection_frames. negatively_changed_frames is the
\* iterator of filter(): the comprehension of the time column uses it up, and
\* those of the entity paths and of the clear flags go over nothing
MeshWrites(device, frames) ==
    LET entity_path == EntityPath(device, "MESH_DETECTION_FRAME", <<>>)
        positively_changed_frames == SelectSeq(frames, PositivelyChanged)
        negatively_changed_frames == SelectSeq(frames, NegativelyChanged)
        used_up == <<>>
    IN  << [kind |-> "log_static", path |-> entity_path,
            components |-> <<"Mesh3D.indicator">>, times |-> <<>>, data |-> <<>>,
            entity_paths |-> <<>>, clear |-> <<>>] >>
        \o MeshLogs(entity_path, positively_changed_frames)
        \o << ClearingWrite(entity_path, DeviceSeconds(negatively_changed_frames), used_up) >>

\* The recording is indexed by device time. The rows of the writes that say of a
\* trackable that it is there or cleared: a row of a column write with its time
\* and its entity path, a logged mesh with the time set and the last part of its
\* path.
Entries(writes) ==
    UNION { IF writes[i].kind = "log"
              THEN {[at |-> i, time |-> writes[i].times[1],
                     key |-> <<writes[i].path[Len(writes[i].path)]>>, present |-> TRUE]}
              ELSE IF writes[i].kind = "send_columns"
                     THEN {[at |-> i, time |-> writes[i].times[k],
                            key |-> writes[i].entity_paths[k],
                            present |-> ~(k \in DOMAIN writes[i].clear /\ writes[i].clear[k])] :
                              k \in DOMAIN writes[i].times \cap DOMAIN writes[i].entity_paths}
                     ELSE {} : i \in DOMAIN writes }

\* the entry of the latest device time, of two of one time the one sent later
Latest(es) ==
    CHOOSE e \in es : \A o \in es :
        o.time < e.time \/ (o.time = e.time /\ o.at <= e.at)

\* what the recording shows after the writes of a call, the device times of which
\* are after those of the calls before: a trackable is there if its latest entry
\* says so, and as it was if the call has no entry for it
ApplyWrites(present, op, writes) ==
    {t \in present : t[1] # op}
    \cup {<<op, id>> : id \in
             {i \in TrackableIds :
                 LET es == {e \in Entries(writes) : e.key = <<i>>} IN
                 IF es = {} THEN <<op, i>> \in present ELSE Latest(es).present}}

\* save_plane_detection_frames
SavePlaneDetectionFrames(frames, device) ==
    /\ BeginLogging("plane", frames, device, <<>>, PlaneWarnings(frames))
    /\ sink' = IF Len(frames) = 0 THEN <<>> ELSE PlaneWrites(device, frames)
    /\ trackables' = ApplyWrites(trackables, "plane", sink')
    /\ RestUnchanged

\* save_point_cloud_detection_frames
SavePointCloudDetectionFrames(frames, device) ==
    /\ Begin("point_cloud", frames, device, <<>>)
    /\ sink' = IF Len(frames) = 0 THEN <<>> ELSE PointCloudWrites(device, frames)
    /\ trackables' = ApplyWrites(trackables, "point_cloud", sink')
    /\ RestUnchanged

\* save_mesh_detection_frames
SaveMeshDetectionFrames(frames, device) ==
    /\ Begin("mesh", frames, device, <<>>)
    /\ sink' = IF Len(frames) = 0 THEN <<>> ELSE MeshWrites(device, frames)
    /\ trackables' = ApplyWrites(trackables, "mesh", sink')
    /\ RestUnchanged

----------------------------------------------------------------------------
(* SpecEntry: one session stream without compression, each save_* entry point *)
(* called with no frame or a few, one call after another                      *)

\* the longest batch of color, depth and detection frames of SpecEntry
MaxEntry == 1

\* SessionStream.__init__(info, stream) on a host with ffmpeg
InitEntry == InitFrames /\ ffmpeg_available /\ compression_available

ColorCall ==
    /\ pc[MuxThread] = "idle"
    /\ \E n \in 0 .. MaxEntry, d \in MuxDevices :
           SaveColorFrames(
               ColorFrames([k \in 1 .. n |-> [format |-> "RGB24", dims |-> ShapedDims]]), d)

DepthCall ==
    /\ pc[MuxThread] = "idle"
    /\ \E b \in UNION {[1 .. n -> DepthShapes] : n \in 0 .. MaxEntry}, d \in MuxDevices :
           SaveDepthFrames(DepthFrames(b), d)

GyroscopeBatchArrives ==
    /\ pc[MuxThread] = "idle"
    /\ \E n \in 0 .. MaxBatch, d \in MuxDevices : SaveGyroscopeFrames(SensorFrames(n), d)

AudioBatchArrives ==
    /\ pc[MuxThread] = "idle"
    /\ \E n \in 0 .. MaxBatch, d \in MuxDevices : SaveAudioFrames(SensorFrames(n), d)

PlaneCall ==
    /\ pc[MuxThread] = "idle"
    /\ \E n \in 0 .. MaxEntry, d \in MuxDevices :
           SavePlaneDetectionFrames(
               PlaneDetectionFrames(
                   [k \in 1 .. n |-> [n_boundary |-> 3, state |-> "ADDED", trackable |-> 1]]), d)

PointCloudCall ==
    /\ pc[MuxThread] = "idle"
    /\ \E n \in 0 .. MaxEntry, d \in MuxDevices :
           SavePointCloudDetectionFrames(
               TrackableFrames([k \in 1 .. n |-> [state |-> "ADDED", trackable |-> 1]]), d)

MeshCall ==
    /\ pc[MuxThread] = "idle"
    /\ \E n \in 0 .. MaxEntry, d \in MuxDevices :
           SaveMeshDetectionFrames(
               TrackableFrames([k \in 1 .. n |-> [state |-> "ADDED", trackable |-> 1]]), d)

NextEntry ==
    \/ TransformBatchArrives
    \/ ColorCall
    \/ ColorGroup
    \/ DepthCall
    \/ GyroscopeBatchArrives
    \/ AudioBatchArrives
    \/ PlaneCall
    \/ PointCloudCall
    \/ MeshCall

SpecEntry == InitEntry /\ [][NextEntry]_vars

----------------------------------------------------------------------------
(* Claims about the entry points, checked under SpecEntry *)

\* C12: every save_* entry point (transform, color, depth, gyroscope, audio,
\* plane, point cloud, mesh) rejects an empty batch with a warning and does
\* nothing else: no static declaration and no column write goes to the sink.
C12_EmptyBatchWarnsAndWritesNothing ==
    (pc[MuxThread] = "idle" /\ mux.op # None /\ mux.frames = <<>>) =>
        /\ sink = <<>>
        /\ "no_frames" \in mux.warnings

----------------------------------------------------------------------------
(* SpecDetect: one session stream, batches of plane, point cloud and mesh *)
(* detection frames, one call after another                               *)

PlaneBatchArrives ==
    /\ pc[MuxThread] = "idle"
    /\ \E b \in PlaneBatches, d \in MuxDevices :
           SavePlaneDetectionFrames(PlaneDetectionFrames(b), d)

PointCloudBatchArrives ==
    /\ pc[MuxThread] = "idle"
    /\ \E b \in TrackableBatches, d \in MuxDevices :
           SavePointCloudDetectionFrames(TrackableFrames(b), d)

MeshBatchArrives ==
    /\ pc[MuxThread] = "idle"
    /\ \E b \in TrackableBatches, d \in MuxDevices :
           SaveMeshDetectionFrames(TrackableFrames(b), d)

NextDetect ==
    \/ PlaneBatchArrives
    \/ PointCloudBatchArrives
    \/ MeshBatchArrives

SpecDetect == InitEntry /\ [][NextDetect]_vars

----------------------------------------------------------------------------
(* Claims about the detection frames, checked under SpecDetect *)

\* the active frames of a batch: added or updated, and of the planes those that
\* are added, or updated with a boundary that is not empty
Active(op, frame) ==
    IF op = "plane"
      THEN frame.state = "ADDED" \/ (frame.state = "UPDATED" /\ frame.n_boundary > 0)
      ELSE frame.state \in {"ADDED", "UPDATED"}

IsClearing(w) ==
    w.kind = "send_columns" /\ w.components = <<"EntityPathBatch", "ClearIsRecursiveBatch">>

IsAdditive(w) == w.kind \in {"send_columns", "log"} /\ ~IsClearing(w)

\* the frames (by their place in the batch) that the rows of the writes come from
FramesOf(writes, Is(_)) ==
    UNION {{writes[i].data[k].of : k \in DOMAIN writes[i].data} :
              i \in {j \in DOMAIN writes : Is(writes[j])}}

DetectionCallReturned ==
    pc[MuxThread] = "idle" /\ mux.op \in DetectionOps /\ mux.frames # <<>>

\* C14: of a batch of plane, point cloud or mesh detection frames, the clearing
\* write has one tombstone for each REMOVED frame (its time column, its entity
\* path column and its clear flag column have as many entries as there are
\* REMOVED frames), the additive writes cover the active frames and no others,
\* and no frame is in both.
C14_ClearingAndAdditiveWrites ==
    DetectionCallReturned =>
        LET removed == {k \in DOMAIN mux.frames : mux.frames[k].state = "REMOVED"}
            active == {k \in DOMAIN mux.frames : Active(mux.op, mux.frames[k])}
            clearing == {i \in DOMAIN sink : IsClearing(sink[i])}
        IN  /\ Cardinality(clearing) = 1
            /\ \A i \in clearing :
                   /\ Len(sink[i].times) = Cardinality(removed)
                   /\ Len(sink[i].entity_paths) = Cardinality(removed)
                   /\ Len(sink[i].clear) = Cardinality(removed)
            /\ FramesOf(sink, IsAdditive) = active
            /\ FramesOf(sink, IsAdditive) \cap removed = {}

\* the place in the batch of the last frame of a trackable, 0 if it has none
LastFrameOf(frames, id) ==
    LET at == {k \in DOMAIN frames : frames[k].trackable = id} IN
    IF at = {} THEN 0 ELSE CHOOSE k \in at : \A o \in at : o <= k

\* C15: a trackable goes from absent to present on an ADDED or UPDATED frame and
\* from present to absent on a REMOVED frame: after a batch of detection frames a
\* trackable of the kind is present in the recording if and only if its last
\* frame of the batch, in input order, was ADDED or UPDATED (an UPDATED with no
\* ADDED before inserts it), and is as it was if the batch has no frame for it.
C15_PresentIffLastFrameActive ==
    [][mux'.op \in DetectionOps =>
          \A id \in TrackableIds :
              LET last == LastFrameOf(mux'.frames, id) IN
              (<<mux'.op, id>> \in trackables') <=>
                  (IF last = 0
                     THEN <<mux'.op, id>> \in trackables
                     ELSE mux'.frames[last].state \in {"ADDED", "UPDATED"})]_vars

----------------------------------------------------------------------------
(* SpecGrouper: group_color_frames_by_format_and_dims and                    *)
(* group_depth_frames_by_format_dims_and_smoothness, each applied to a batch *)

\* the batches of color and of depth frames that the groupers are applied to
GrouperColorInputs ==
    UNION {[1 .. n -> ColorFrameShapes] : n \in 0 .. MaxShaped}

GrouperDepthInputs ==
    UNION {[1 .. n -> DepthShapes] : n \in 0 .. MaxShaped}

\* what the session stream holds besides the call in progress
InitStream ==
    /\ compressors = {}
    /\ active_sessions = [c \in Resolutions |-> <<>>]
    /\ session_lock = [c \in Resolutions |-> None]
    /\ objects = [o \in ObjIds |-> NoObject]
    /\ cleaned = {}
    /\ dirs = {}
    /\ files = [d \in DirNames |-> {}]
    /\ call = [t \in Threads |-> NoCall]
    /\ sess = [t \in Threads |-> NoObj]
    /\ stamp = [t \in Threads |-> NoStamp]
    /\ saved = [t \in Threads |-> 0]
    /\ outcome = [t \in Threads |-> None]
    /\ result = [t \in Threads |-> None]
    /\ ffmpeg_available = TRUE
    /\ compression_available = TRUE
    /\ enable_compression = FALSE
    /\ raised = FALSE
    /\ sink = <<>>
    /\ declared = {}
    /\ trackables = {}

\* save_color_frames or save_depth_frames is about to call its grouper with the
\* frames of its batch
InitGrouper ==
    /\ InitStream
    /\ pc = [t \in Threads |-> IF t = MuxThread THEN "group" ELSE "idle"]
    /\ \/ \E b \in GrouperColorInputs, d \in MuxDevices :
              mux = [op |-> "color", frames |-> ColorFrames(b), device |-> d,
                     groups |-> <<>>, gi |-> 0, warnings |-> {}]
       \/ \E b \in GrouperDepthInputs, d \in MuxDevices :
              mux = [op |-> "depth", frames |-> DepthFrames(b), device |-> d,
                     groups |-> <<>>, gi |-> 0, warnings |-> {}]

Grouped(groups) ==
    /\ pc' = [pc EXCEPT ![MuxThread] = "grouped"]
    /\ mux' = [mux EXCEPT !.groups = groups]
    /\ UNCHANGED <<compressors, active_sessions, session_lock, objects, cleaned, dirs,
                   files, call, sess, stamp, saved, outcome, result>>
    /\ UNCHANGED <<ffmpeg_available, compression_available, enable_compression, raised,
                   sink, declared, trackables>>

\* grouped_frames = group_color_frames_by_format_and_dims(frames)
GroupColorFrames ==
    /\ pc[MuxThread] = "group" /\ mux.op = "color"
    /\ Grouped(group_color_frames_by_format_and_dims(mux.frames))

\* grouped_frames = group_depth_frames_by_format_dims_and_smoothness(frames)
GroupDepthFrames ==
    /\ pc[MuxThread] = "group" /\ mux.op = "depth"
    /\ Grouped(group_depth_frames_by_format_dims_and_smoothness(mux.frames))

NextGrouper ==
    \/ GroupColorFrames
    \/ GroupDepthFrames

SpecGrouper == InitGrouper /\ [][NextGrouper]_vars

----------------------------------------------------------------------------
(* Claims about the groupers, checked under SpecGrouper *)

GrouperReturned == pc[MuxThread] = "grouped"

\* the key of a frame: format, width and height, and of a depth frame its
\* smoothing flag as well
KeyOfFrame(op, frame) ==
    IF op = "depth"
      THEN <<frame.format, frame.width, frame.height,
             frame.environment_depth_temporal_smoothing_enabled>>
      ELSE <<frame.format, frame.width, frame.height>>

\* C18: grouping is a stable partition: in every group that the color and the
\* depth grouper return, the frames are frames of the input and come in the
\* order they have in the input.
C18_GroupsKeepInputOrder ==
    GrouperReturned =>
        \A i \in DOMAIN mux.groups :
            LET g == mux.groups[i].frames IN
            /\ \A a \in DOMAIN g :
                   g[a].index \in DOMAIN mux.frames /\ mux.frames[g[a].index] = g[a]
            /\ \A a, b \in DOMAIN g : a < b => g[a].index < g[b].index

\* C18 witness: a group of two frames that another frame stands between in the
\* input.
C18_Witness ==
    /\ GrouperReturned
    /\ \E i \in DOMAIN mux.groups :
           LET g == mux.groups[i].frames IN
           Len(g) = 2 /\ g[1].index = 1 /\ g[2].index = 3

\* the places (group, place in the group) where a frame of the input is
PlacesOf(groups, frame) ==
    {<<i, a>> \in (DOMAIN groups) \X (1 .. MaxShaped + 1) :
        a \in DOMAIN groups[i].frames /\ groups[i].frames[a] = frame}

\* C19: the groups partition the input: every frame of the input is in exactly
\* one group, the group whose key is the frame's (format, width, height, and the
\* smoothing flag of a depth frame), no group is empty, and there are as many
\* groups as the input has keys.
C19_GroupsPartitionInput ==
    GrouperReturned =>
        /\ \A k \in DOMAIN mux.frames :
               /\ Cardinality(PlacesOf(mux.groups, mux.frames[k])) = 1
               /\ \A p \in PlacesOf(mux.groups, mux.frames[k]) :
                      mux.groups[p[1]].key = KeyOfFrame(mux.op, mux.frames[k])
        /\ \A i \in DOMAIN mux.groups :
               /\ mux.groups[i].frames # <<>>
               /\ \A a \in DOMAIN mux.groups[i].frames :
                      \E k \in DOMAIN mux.frames : mux.frames[k] = mux.groups[i].frames[a]
        /\ Len(mux.groups) =
               Cardinality({KeyOfFrame(mux.op, mux.frames[k]) : k \in DOMAIN mux.frames})

\* C19 witness: two RGB24 frames and one RGBA32 frame of one size give two
\* groups, of two frames and of one.
C19_Witness ==
    /\ GrouperReturned /\ mux.op = "color" /\ Len(mux.frames) = 3
    /\ Cardinality({k \in DOMAIN mux.frames : mux.frames[k].format = "RGB24"}) = 2
    /\ Cardinality({k \in DOMAIN mux.frames : mux.frames[k].format = "RGBA32"}) = 1
    /\ \A k \in DOMAIN mux.frames : mux.frames[k].width = mux.frames[1].width
    /\ Len(mux.groups) = 2
    /\ {Len(mux.groups[i].frames) : i \in DOMAIN mux.groups} = {1, 2}

----------------------------------------------------------------------------
(* _convert_2d_to_3d_boundary_points *)

\* A float is a whole number or nan; the vectors of the model have whole
\* components and normals along an axis, so that norms and quotients are exact.
Float(k) == [nan |-> FALSE, val |-> k]

NaN == [nan |-> TRUE, val |-> 0]

\* a == b of two floats: nan equals nothing
FloatEq(a, b) == ~a.nan /\ ~b.nan /\ a.val = b.val

FloatAdd(a, b) == IF a.nan \/ b.nan THEN NaN ELSE Float(a.val + b.val)

FloatSub(a, b) == IF a.nan \/ b.nan THEN NaN ELSE Float(a.val - b.val)

FloatMul(a, b) == IF a.nan \/ b.nan THEN NaN ELSE Float(a.val * b.val)

\* a / b where a is 0 or a multiple of b: 0 / 0 is nan
FloatDiv(a, b) == IF a.nan \/ b.nan \/ b.val = 0 THEN NaN ELSE Float(a.val \div b.val)

Abs(k) == IF k < 0 THEN -k ELSE k

\* np.array([x, y, z])
Vector(v) == [i \in 1 .. 3 |-> Float(v[i])]

\* np.linalg.norm of a vector along an axis, or of zeros, or with nan
Norm(v) ==
    IF \E i \in 1 .. 3 : v[i].nan
      THEN NaN
      ELSE Float(Abs(v[1].val) + Abs(v[2].val) + Abs(v[3].val))

\* v / np.linalg.norm(v)
Normalized(v) == [i \in 1 .. 3 |-> FloatDiv(v[i], Norm(v))]

\* np.cross(a, b)
Cross(a, b) ==
    << FloatSub(FloatMul(a[2], b[3]), FloatMul(a[3], b[2])),
       FloatSub(FloatMul(a[3], b[1]), FloatMul(a[1], b[3])),
       FloatSub(FloatMul(a[1], b[2]), FloatMul(a[2], b[1])) >>

\* np.allclose(a, b) of two vectors of whole components or nan
AllClose(a, b) == \A i \in 1 .. 3 : FloatEq(a[i], b[i])

\* arbitary_vector
ArbitraryVector(normalized_normal) ==
    IF ~AllClose(normalized_normal, Vector(<<1, 0, 0>>))
      THEN Vector(<<1, 0, 0>>)
      ELSE Vector(<<0, 1, 0>>)

\* u = np.cross(normalized_normal_as_np, arbitary_vector); u = u / np.linalg.norm(u)
BasisU(normal) ==
    LET normalized_normal == Normalized(Vector(normal)) IN
    Normalized(Cross(normalized_normal, ArbitraryVector(normalized_normal)))

\* v = np.cross(normalized_normal_as_np, u)
BasisV(normal) == Cross(Normalized(Vector(normal)), BasisU(normal))

\* center_as_np + point_2d.x * u + point_2d.y * v
Project(center, u, v, point_2d) ==
    [i \in 1 .. 3 |->
        FloatAdd(FloatAdd(Float(center[i]), FloatMul(Float(point_2d[1]), u[i])),
                 FloatMul(Float(point_2d[2]), v[i]))]

\* _convert_2d_to_3d_boundary_points: the boundary of no points gives the empty
\* array (and a warning); else the points of the boundary, projected, and the
\* first of them once more
convert_2d_to_3d_boundary_points(boundary, normal, center) ==
    IF Len(boundary) = 0
      THEN <<>>
      ELSE LET u == BasisU(normal)
               v == BasisV(normal)
           IN  [k \in DOMAIN boundary |-> Project(center, u, v, boundary[k])]
               \o <<Project(center, u, v, boundary[1])>>

----------------------------------------------------------------------------
(* SpecBoundary: _convert_2d_to_3d_boundary_points applied to the boundary, *)
(* the normal and the center of a plane                                      *)

\* the most points a boundary has
MaxBoundary == 3

\* Vector2 points of a boundary
BoundaryPoints == {<<0, 0>>, <<1, 0>>, <<0, 2>>, <<-1, 1>>}

Boundaries ==
    UNION {[1 .. n -> BoundaryPoints] : n \in 0 .. MaxBoundary}

\* plane.normal: along an axis, of length one or more, or of no length
Normals == {<<1, 0, 0>>, <<-1, 0, 0>>, <<0, 2, 0>>, <<0, 0, -1>>, <<0, 0, 0>>}

\* plane.center
Centers == {<<0, 0, 0>>, <<1, 2, 3>>}

\* save_plane_detection_frames is about to project the boundary of a plane
InitBoundary ==
    /\ InitStream
    /\ pc = [t \in Threads |-> IF t = MuxThread THEN "project" ELSE "idle"]
    /\ \E b \in Boundaries, n \in Normals, c \in Centers, d \in MuxDevices :
           mux = [op |-> "plane", frames |-> <<>>, device |-> d, groups |-> <<>>,
                  gi |-> 0, warnings |-> {},
                  boundary |-> b, normal |-> n, center |-> c, points |-> <<>>]

\* _convert_2d_to_3d_boundary_points(boundary, normal, center)
ConvertBoundary ==
    /\ pc[MuxThread] = "project"
    /\ pc' = [pc EXCEPT ![MuxThread] = "projected"]
    /\ mux' = [mux EXCEPT
                 !.points = convert_2d_to_3d_boundary_points(
                                mux.boundary, mux.normal, mux.center),
                 !.warnings = IF Len(mux.boundary) = 0 THEN {"no_boundary"} ELSE {}]
    /\ UNCHANGED <<compressors, active_sessions, session_lock, objects, cleaned, dirs,
                   files, call, sess, stamp, saved, outcome, result>>
    /\ UNCHANGED <<ffmpeg_available, compression_available, enable_compression, raised,
                   sink, declared, trackables>>

NextBoundary == ConvertBoundary

SpecBoundary == InitBoundary /\ [][NextBoundary]_vars

----------------------------------------------------------------------------
(* Claims about the projection, checked under SpecBoundary *)

\* two points are equal: each coordinate of the one equals that of the other
PointEq(a, b) == \A i \in 1 .. 3 : FloatEq(a[i], b[i])

\* C20: for a boundary of K >= 1 points (and a normal that is not of no length),
\* the projected boundary has K + 1 points, the i-th of them is
\* center + p_i.x * u + p_i.y * v for the in-plane basis u, v, in the order of
\* the input, and the last of them equals the first.
C20_ProjectedBoundaryClosed ==
    (/\ pc[MuxThread] = "projected"
     /\ Len(mux.boundary) >= 1
     /\ mux.normal # <<0, 0, 0>>)
        => /\ Len(mux.points) = Len(mux.boundary) + 1
           /\ \A i \in DOMAIN mux.boundary :
                  PointEq(mux.points[i],
                          Project(mux.center, BasisU(mux.normal), BasisV(mux.normal),
                                  mux.boundary[i]))
           /\ PointEq(mux.points[Len(mux.boundary) + 1], mux.points[1])

Projected == pc[MuxThread] = "projected"

HasNaN(point) == \E i \in 1 .. 3 : point[i].nan

\* C28: for every plane normal that is not of no length (and a boundary that has
\* points, so that there is a projection), the reference axis that the
\* projection takes (world X, or world Y when the normal is parallel to X)
\* is not parallel to the normal: normal x reference is not the zero vector, and
\* the projection divides by no zero, so no coordinate of its output is nan.
C28_ReferenceAxisNotParallel ==
    (Projected /\ Len(mux.boundary) >= 1 /\ mux.normal # <<0, 0, 0>>) =>
        LET normalized_normal == Normalized(Vector(mux.normal)) IN
        /\ ~FloatEq(Norm(Cross(normalized_normal, ArbitraryVector(normalized_normal))),
                    Float(0))
        /\ \A k \in DOMAIN mux.points : ~HasNaN(mux.points[k])

\* C29: a plane whose normal has no length is invalid input: the projection
\* returns the empty output with a warning and does not divide by the norm, so
\* no coordinate of what it returns is nan.
C29_ZeroNormalRejected ==
    (Projected /\ mux.normal = <<0, 0, 0>>) =>
        /\ mux.points = <<>>
        /\ mux.warnings # {}

----------------------------------------------------------------------------
(* SpecFresh: the first batch of detection frames that a session stream gets *)

FirstPlaneBatch ==
    /\ mux = NoMux
    /\ \E b \in PlaneBatches, d \in MuxDevices :
           SavePlaneDetectionFrames(PlaneDetectionFrames(b), d)

FirstPointCloudBatch ==
    /\ mux = NoMux
    /\ \E b \in TrackableBatches, d \in MuxDevices :
           SavePointCloudDetectionFrames(TrackableFrames(b), d)

FirstMeshBatch ==
    /\ mux = NoMux
    /\ \E b \in TrackableBatches, d \in MuxDevices :
           SaveMeshDetectionFrames(TrackableFrames(b), d)

NextFresh ==
    \/ FirstPlaneBatch
    \/ FirstPointCloudBatch
    \/ FirstMeshBatch

SpecFresh == InitEntry /\ [][NextFresh]_vars

----------------------------------------------------------------------------
(* Claims about the detection frames, checked under SpecFresh *)

PlaneCallReturned == pc[MuxThread] = "idle" /\ mux.op = "plane" /\ mux.frames # <<>>

\* C23: the active subset of a batch of plane detection frames, the frames of
\* the additive write, is the frames whose state is ADDED, or whose state is
\* UPDATED with a boundary that is not empty: an ADDED frame with an empty
\* boundary is active, an UPDATED frame with an empty boundary is not, and a
\* REMOVED frame never is.
C23_PlaneActiveSubset ==
    PlaneCallReturned =>
        \A k \in DOMAIN mux.frames :
            (k \in FramesOf(sink, IsAdditive)) <=>
                \/ mux.frames[k].state = "ADDED"
                \/ mux.frames[k].state = "UPDATED" /\ mux.frames[k].n_boundary > 0

\* C23 witness: a batch of an ADDED frame and an UPDATED frame, both with an
\* empty boundary; the additive write has the first and not the second.
C23_Witness ==
    /\ PlaneCallReturned /\ Len(mux.frames) = 2
    /\ mux.frames[1].state = "ADDED" /\ mux.frames[1].n_boundary = 0
    /\ mux.frames[2].state = "UPDATED" /\ mux.frames[2].n_boundary = 0
    /\ FramesOf(sink, IsAdditive) = {1}

----------------------------------------------------------------------------
(* More claims about the detection frames, checked under SpecDetect *)

\* the key under which the additive write of a kind puts a trackable: the entry
\* of its EntityPathBatch, or the path that a mesh is logged to
AdditiveKey(op, device, frame) ==
    IF op = "mesh"
      THEN EntityPath(device, "MESH_DETECTION_FRAME", <<>>) \o TrackableKey(frame)
      ELSE TrackableKey(frame)

\* the keys that the tombstones of the clearing writes address
TombstoneKeys(writes) ==
    UNION {{writes[i].entity_paths[j] : j \in DOMAIN writes[i].entity_paths} :
              i \in {i \in DOMAIN writes : IsClearing(writes[i])}}

\* C24: for every detection kind (plane, point cloud, mesh) the tombstone of a
\* REMOVED frame is keyed by the entity sub-path under which the additive write
\* puts the frames of that trackable: every tombstone addresses such a key, and
\* every REMOVED frame has one.
C24_TombstoneAddressesAdditiveKey ==
    DetectionCallReturned =>
        /\ \A k \in DOMAIN mux.frames :
               mux.frames[k].state = "REMOVED" =>
                   AdditiveKey(mux.op, mux.device, mux.frames[k]) \in TombstoneKeys(sink)
        /\ \A key \in TombstoneKeys(sink) :
               \E k \in DOMAIN mux.frames :
                   /\ mux.frames[k].state = "REMOVED"
                   /\ key = AdditiveKey(mux.op, mux.device, mux.frames[k])

\* the device times that the writes of a call carry for the frame at a place of
\* the batch: of the rows that come from it, and of the rows of a clearing write
\* by their place among the REMOVED frames
RemovedPlaces(frames) == SelectSeq([k \in DOMAIN frames |-> k], LAMBDA k : frames[k].state = "REMOVED")

TimesWrittenFor(writes, frames, k) ==
    UNION {{writes[i].times[j] : j \in {j \in DOMAIN writes[i].times :
                IF IsClearing(writes[i])
                  THEN j \in DOMAIN RemovedPlaces(frames) /\ RemovedPlaces(frames)[j] = k
                  ELSE j \in DOMAIN writes[i].data /\ writes[i].data[j].of = k}} :
              i \in {i \in DOMAIN writes : writes[i].kind # "log_static"}}

\* C27: every device time written to the sink for a frame, the tombstones for the
\* removed trackables of every detection kind among them, is the device
\* timestamp of the frame: its seconds plus its nanoseconds / 1e9.
C27_TimesAreDeviceTimestamps ==
    DetectionCallReturned =>
        \A k \in DOMAIN mux.frames :
            \A t \in TimesWrittenFor(sink, mux.frames, k) : t = DeviceTime(mux.frames[k])

----------------------------------------------------------------------------
(* The channel conversions of 32-bit color images.  An image of shape       *)
(* (height, width, 4) is the sequence of its pixels in row-major order, a   *)
(* pixel the tuple of its four channels (index 1 is channel 0).             *)

\* the values of a channel (np.uint8): the lowest and the highest
ChannelValues == {0, 255}

MaxPixels == 2

MaxApplied == 4

Pixels == [1 .. 4 -> ChannelValues]

Images == UNION {[1 .. n -> Pixels] : n \in 1 .. MaxPixels}

\* rgba_image[:, :, 0] = rgba_image[:, :, 2]; rgba_image[:, :, 2] = rgba_image[:, :, 0]:
\* the swap done one channel after the other
SwapOneByOne(bgra_image) ==
    LET first == [k \in DOMAIN bgra_image |-> [bgra_image[k] EXCEPT ![1] = bgra_image[k][3]]]
        rgba_image == [k \in DOMAIN first |-> [first[k] EXCEPT ![3] = first[k][1]]]
    IN  [argument |-> bgra_image, returned |-> rgba_image]

\* _bgra_to_rgba(bgra_image): the array passed in as it is left, and the array
\* returned.  The right-hand side of the assignment is a copy made by the fancy
\* index [2, 0] before the left-hand side is written.
bgra_to_rgba(bgra_image) ==
    LET copy == bgra_image
        rhs == [k \in DOMAIN copy |-> <<copy[k][3], copy[k][1]>>]
        rgba_image == [k \in DOMAIN copy |->
                          [copy[k] EXCEPT ![1] = rhs[k][1], ![3] = rhs[k][2]]]
    IN  [argument |-> bgra_image, returned |-> rgba_image]

\* the alpha channel written back to where it was read
AlphaKeptFirst(argb_image) ==
    LET rgba_image == [k \in DOMAIN argb_image |->
                          <<argb_image[k][1], argb_image[k][2], argb_image[k][3],
                            argb_image[k][4]>>]
    IN  [argument |-> argb_image, returned |-> rgba_image]

\* _argb_to_rgba(argb_image): the array passed in as it is left, and the array
\* returned
argb_to_rgba(argb_image) ==
    LET zeros == [k \in DOMAIN argb_image |-> <<0, 0, 0, 0>>]
        rgba_image == [k \in DOMAIN zeros |->
                          [zeros[k] EXCEPT ![1] = argb_image[k][2],
                                           ![2] = argb_image[k][3],
                                           ![3] = argb_image[k][4],
                                           ![4] = argb_image[k][1]]]
    IN  [argument |-> argb_image, returned |-> rgba_image]

\* save_color_frames is about to convert the image of a BGRA32 or ARGB32 frame
InitPixels ==
    /\ InitStream
    /\ pc = [t \in Threads |-> IF t = MuxThread THEN "convert" ELSE "idle"]
    /\ \E i \in Images, f \in {"BGRA32", "ARGB32"}, d \in MuxDevices :
           mux = [op |-> "color", frames |-> <<>>, device |-> d, groups |-> <<>>,
                  gi |-> 0, warnings |-> {},
                  format |-> f, image |-> i, applied |-> 0,
                  passed |-> i, argument |-> i, returned |-> i]

\* one call of a conversion on the array that the call before returned
Converted(arrays) ==
    /\ pc' = [pc EXCEPT ![MuxThread] = "converted"]
    /\ mux' = [mux EXCEPT !.applied = @ + 1,
                          !.passed = mux.returned,
                          !.argument = arrays.argument,
                          !.returned = arrays.returned]
    /\ UNCHANGED <<compressors, active_sessions, session_lock, objects, cleaned, dirs,
                   files, call, sess, stamp, saved, outcome, result>>
    /\ UNCHANGED <<ffmpeg_available, compression_available, enable_compression, raised,
                   sink, declared, trackables>>

\* _bgra_to_rgba(...)
ConvertBgra ==
    /\ pc[MuxThread] \in {"convert", "converted"}
    /\ mux.format = "BGRA32" /\ mux.applied < MaxApplied
    /\ Converted(bgra_to_rgba(mux.returned))

\* _argb_to_rgba(...)
ConvertArgb ==
    /\ pc[MuxThread] \in {"convert", "converted"}
    /\ mux.format = "ARGB32" /\ mux.applied < MaxApplied
    /\ Converted(argb_to_rgba(mux.returned))

NextPixels ==
    \/ ConvertBgra
    \/ ConvertArgb

SpecPixels == InitPixels /\ [][NextPixels]_vars

----------------------------------------------------------------------------
(* Claims about the channel conversions, checked under SpecPixels *)

ConversionReturned(format) ==
    pc[MuxThread] = "converted" /\ mux.format = format

\* C21: _bgra_to_rgba returns an array whose channels 0 and 2 are those of its
\* argument exchanged and whose channels 1 and 3 are those of its argument;
\* applied an even number of times it returns the first image; the array passed
\* in is left as it was.
C21_BgraSwapIsInvolution ==
    ConversionReturned("BGRA32") =>
        /\ DOMAIN mux.returned = DOMAIN mux.passed
        /\ \A k \in DOMAIN mux.passed :
               /\ mux.returned[k][1] = mux.passed[k][3]
               /\ mux.returned[k][3] = mux.passed[k][1]
               /\ mux.returned[k][2] = mux.passed[k][2]
               /\ mux.returned[k][4] = mux.passed[k][4]
        /\ mux.applied % 2 = 0 => mux.returned = mux.image
        /\ mux.argument = mux.passed

\* two calls made on an image whose red and blue channels differ
C21_Witness ==
    /\ ConversionReturned("BGRA32")
    /\ mux.applied = 2
    /\ \E k \in DOMAIN mux.image : mux.image[k][1] # mux.image[k][3]
    /\ mux.returned = mux.image

\* C22: _argb_to_rgba returns an array whose channels 0, 1, 2, 3 are channels
\* 1, 2, 3, 0 of its argument; applied four times it returns the first image;
\* applied one, two or three times to an image with a pixel whose channels 0
\* and 2 differ it returns another image.
C22_ArgbRotationOfOrderFour ==
    ConversionReturned("ARGB32") =>
        /\ DOMAIN mux.returned = DOMAIN mux.passed
        /\ \A k \in DOMAIN mux.passed :
               /\ mux.returned[k][1] = mux.passed[k][2]
               /\ mux.returned[k][2] = mux.passed[k][3]
               /\ mux.returned[k][3] = mux.passed[k][4]
               /\ mux.returned[k][4] = mux.passed[k][1]
        /\ mux.applied % 4 = 0 => mux.returned = mux.image
        /\ (/\ mux.applied % 4 # 0
            /\ \E k \in DOMAIN mux.image : mux.image[k][1] # mux.image[k][3])
               => mux.returned # mux.image

\* four calls made on an image that one, two and three calls change
C22_Witness ==
    /\ ConversionReturned("ARGB32")
    /\ mux.applied = 4
    /\ \E k \in DOMAIN mux.image : mux.image[k][1] # mux.image[k][3]
    /\ mux.returned = mux.image

----------------------------------------------------------------------------
(* _to_i420_format on the plane buffers of an ANDROID_YUV_420_888 image: a  *)
(* buffer is the number of its bytes, the array returned the lengths of the *)
(* parts concatenated, in order.                                           *)

\* half the largest width and height of an image
MaxHalf == 2

Min(a, b) == IF a < b THEN a ELSE b

\* np.frombuffer(data).reshape((rows, cols)): ValueError is raised when the
\* buffer does not hold rows * cols bytes
Reshape(length, rows, cols) ==
    [raised |-> length # rows * cols, rows |-> rows, cols |-> cols]

\* the number of elements of array[:, :stop:step].flatten()
Strided(array, stop, step) ==
    LET taken == Min(stop, array.cols)
    IN  array.rows * ((taken + step - 1) \div step)

\* image planes of the dimensions given: the luma rows tight or padded, the
\* chroma planes planar or interleaved (pixel_stride 1 or 2), their rows tight
\* or padded, their buffers whole or one byte short
I420Images ==
    { [width |-> 2 * hw, height |-> 2 * hh, n_planes |-> n,
       y_plane |-> [length |-> 2 * hh * (2 * hw + y_pad), row_stride |-> 2 * hw + y_pad],
       u_plane |-> [length |-> hh * (hw * ps + uv_pad) - u_short,
                    row_stride |-> hw * ps + uv_pad, pixel_stride |-> ps],
       v_plane |-> [length |-> hh * (hw * ps + uv_pad) - v_short,
                    row_stride |-> hw * ps + uv_pad, pixel_stride |-> ps]] :
      hw \in 1 .. MaxHalf, hh \in 1 .. MaxHalf, n \in {1, 3}, y_pad \in {0, 2},
      ps \in {1, 2}, uv_pad \in {0, 2}, u_short \in {0, 1}, v_short \in {0, 1} }

\* _to_i420_format(image): whether ValueError is raised, and the parts of the
\* array returned, none for an image that has not three planes
to_i420_format(image) ==
    IF image.n_planes # 3
      THEN [raised |-> FALSE, parts |-> <<>>]
      ELSE
        LET height == image.height
            width == image.width
            uv_height == height \div 2
            uv_width == width \div 2
            y_data == Reshape(image.y_plane.length, height, image.y_plane.row_stride)
            u_data == Reshape(image.u_plane.length + 1, uv_height,
                              image.u_plane.row_stride)
            v_data == Reshape(image.v_plane.length + 1, uv_height,
                              image.v_plane.row_stride)
        IN  IF y_data.raised \/ u_data.raised \/ v_data.raised
              THEN [raised |-> TRUE, parts |-> <<>>]
              ELSE [raised |-> FALSE,
                    parts |->
                      << [plane |-> "Y", length |-> Strided(y_data, width, 1)],
                         [plane |-> "U",
                          length |-> Strided(u_data,
                                             uv_width * image.u_plane.pixel_stride,
                                             image.u_plane.pixel_stride)],
                         [plane |-> "V",
                          length |-> Strided(v_data,
                                             uv_width * image.v_plane.pixel_stride,
                                             image.v_plane.pixel_stride)] >>]

\* save_color_frames is about to convert the image of an ANDROID_YUV_420_888
\* frame
InitI420 ==
    /\ InitStream
    /\ pc = [t \in Threads |-> IF t = MuxThread THEN "convert" ELSE "idle"]
    /\ \E i \in I420Images, d \in MuxDevices :
           mux = [op |-> "color", frames |-> <<>>, device |-> d, groups |-> <<>>,
                  gi |-> 0, warnings |-> {},
                  format |-> "ANDROID_YUV_420_888", image |-> i,
                  returned |-> [raised |-> FALSE, parts |-> <<>>]]

\* _to_i420_format(f.image)
ToI420Format ==
    /\ pc[MuxThread] = "convert"
    /\ pc' = [pc EXCEPT ![MuxThread] = "converted"]
    /\ mux' = [mux EXCEPT
                 !.returned = to_i420_format(mux.image),
                 !.warnings = IF mux.image.n_planes # 3 THEN {"bad_planes"} ELSE {}]
    /\ UNCHANGED <<compressors, active_sessions, session_lock, objects, cleaned, dirs,
                   files, call, sess, stamp, saved, outcome, result>>
    /\ UNCHANGED <<ffmpeg_available, compression_available, enable_compression, raised,
                   sink, declared, trackables>>

NextI420 == ToI420Format

SpecI420 == InitI420 /\ [][NextI420]_vars

----------------------------------------------------------------------------
(* Claims about _to_i420_format, checked under SpecI420 *)

\* the chroma buffer holds row_stride * (height / 2) bytes, or one byte less
WholeOrOneShort(plane, image) ==
    plane.length \in {plane.row_stride * (image.height \div 2),
                      plane.row_stride * (image.height \div 2) - 1}

\* C30: for an image of three planes, of even width w and even height h, whose
\* chroma buffers each hold row_stride * (h / 2) bytes or one byte less,
\* _to_i420_format returns w * h bytes of Y, then (w / 2) * (h / 2) bytes of U,
\* then as many of V.
C30_I420Length ==
    (/\ ConversionReturned("ANDROID_YUV_420_888")
     /\ mux.image.n_planes = 3
     /\ WholeOrOneShort(mux.image.u_plane, mux.image)
     /\ WholeOrOneShort(mux.image.v_plane, mux.image)) =>
        LET w == mux.image.width
            h == mux.image.height
        IN  /\ ~mux.returned.raised
            /\ mux.returned.parts =
                   << [plane |-> "Y", length |-> w * h],
                      [plane |-> "U", length |-> (w \div 2) * (h \div 2)],
                      [plane |-> "V", length |-> (w \div 2) * (h \div 2)] >>

----------------------------------------------------------------------------
(* Claims about the scratch directories and the scratch files *)

\* C25, checked under SpecMux: no two VideoSession objects that exist, held by
\* the session table of any compressor of the stream or in use by a call, have
\* the same scratch directory.
C25_LiveSessionsOwnDistinctDirs ==
    \A o, q \in Referenced(active_sessions, sess) :
        o # q => objects[o].session_dir # objects[q].session_dir

\* the thread is in compress_frames and has chosen its file names
HasScratchNames(t) == pc[t] \in {"save", "ffmpeg"}

\* the names compress_frames of the thread may write and unlinks when it ends
ScratchNames(t) == SavedFiles(call[t].n, stamp[t]) \cup {OutputFile(stamp[t])}

\* C26, checked under Spec: two calls of compress_frames in progress at once in
\* the same scratch directory have no scratch file name in common.
C26_CallsUseDistinctScratchNames ==
    \A t, u \in Threads :
        (t # u /\ HasScratchNames(t) /\ HasScratchNames(u) /\ MyDir(t) = MyDir(u))
            => ScratchNames(t) \cap ScratchNames(u) = {}

====
